---- MODULE Spec2Model ----
(***************************************************************************)
(* ESG Copilot: the in-memory session store (server/storage.ts), the       *)
(* request gateway with its REST and WebSocket ingress paths               *)
(* (server/routes.ts), token verification (server/services/authService.ts) *)
(* and the token streamer (server/services/mcpLlmService.ts); the read    *)
(* endpoints of the gateway; and the chat widget of the client with its   *)
(* WebSocket reconnection (client/src/components/ChatWidget.tsx,           *)
(* client/src/hooks/useChatApi.ts).                                        *)
(* The store's user contexts, and enrichContext and detectIntent of        *)
(* mcpLlmService.ts, are called directly in specifications of their own.   *)
(*                                                                         *)
(* A string the state stores is held by name; Chars gives its characters   *)
(* as a sequence of one-character strings.  Node runs every handler to     *)
(* completion between two awaits, so an action is the code between one     *)
(* await and the next.                                                     *)
(***************************************************************************)
EXTENDS Integers, Sequences, FiniteSets, TLC

VARIABLES
    chatSessions,   \* MemStorage.chatSessions: session id -> ChatSession
    chatMessages,   \* MemStorage.chatMessages, in Map insertion order
    uuids,          \* number of ids randomUUID() has handed out
    now,            \* the value new Date() returned last; the clock never runs backwards
    apiResult,      \* outcome of the last direct call of the storage interface or
                    \* of a service function, with the call's arguments
    req,            \* the gateway's units of work, one per request or chat_query
    readyState,     \* ws.readyState of every server-side connection
    sent,           \* envelopes each connection was given through ws.send, in order
    widget,         \* a ChatWidget instance in the browser: its state, its ref, its
                    \* sockets and its reconnection timers
    userContexts    \* MemStorage.userContexts: user id -> UserContext

vars == <<chatSessions, chatMessages, uuids, now, apiResult, req,
          readyState, sent, widget, userContexts>>

storeVars == <<chatSessions, chatMessages, uuids, now>>
gatewayVars == <<req, readyState, sent>>

----------------------------------------------------------------------------
(* Bounds of the model *)

MaxClock == 1        \* the largest value the clock reaches
MaxGatewayClock == 0 \* the largest value it reaches while the gateway runs
MaxCalls == 5        \* direct calls of the storage interface
MaxRequests == 2     \* units of work the gateway accepts
MaxConns == 1        \* WebSocket connections that are open at a time
MaxReconnects == 1   \* connections opened after another one has closed
MaxReads == 1        \* requests the read endpoints accept
MaxPopulate == 4     \* direct calls that fill the store while the read endpoints run
MaxSockets == 4      \* WebSockets a widget creates
MaxSubmits == 2      \* queries the user submits in the widget
MaxSeeded == 1       \* sessions created for principals other than the token's
MaxFragments == 3    \* pieces a query given to detectIntent is put together from

(* Program constants *)

MaxQueryLength == 2000   \* z.string().min(1).max(2000)
MinQueryLength == 1
HistoryWindow == 10      \* msgs.slice(-10)

----------------------------------------------------------------------------
(* Values *)

NoSessionId == 0         \* an absent (falsy) sessionId
UnknownSessionId == NoSessionId - 1   \* a sessionId no session was created with

UserIds == {"user-123", "user-456"}
Roles == {"user", "assistant"}

Min(a, b) == IF a < b THEN a ELSE b

\* the characters of the strings the model uses
Chars(s) ==
    CASE s = "" -> <<>>
      [] s = "hi" -> <<"h", "i">>
      [] s = "why" -> <<"w", "h", "y">>
      [] s = "hi yo" -> <<"h", "i", " ", "y", "o">>
      [] s = "long" -> [i \in 1..(MaxQueryLength + 1) |-> "a"]
      [] s = "explain" -> <<"e", "x", "p", "l", "a", "i", "n">>
      [] s = "what is" -> <<"w", "h", "a", "t", " ", "i", "s">>
      [] s = "summarize" -> <<"s", "u", "m", "m", "a", "r", "i", "z", "e">>
      [] s = "summary" -> <<"s", "u", "m", "m", "a", "r", "y">>
      [] s = "overview" -> <<"o", "v", "e", "r", "v", "i", "e", "w">>
      [] s = "how do i" -> <<"h", "o", "w", " ", "d", "o", " ", "i">>
      [] s = "where" -> <<"w", "h", "e", "r", "e">>
      [] s = "navigate" -> <<"n", "a", "v", "i", "g", "a", "t", "e">>
      [] s = "help" -> <<"h", "e", "l", "p">>
      [] s = "guide" -> <<"g", "u", "i", "d", "e">>
      [] s = "tutorial" -> <<"t", "u", "t", "o", "r", "i", "a", "l">>
      [] s = "validate" -> <<"v", "a", "l", "i", "d", "a", "t", "e">>
      [] s = "check" -> <<"c", "h", "e", "c", "k">>
      [] s = "verify" -> <<"v", "e", "r", "i", "f", "y">>
      [] s = "Why" -> <<"W", "h", "y">>
      [] s = "what" -> <<"w", "h", "a", "t">>
      [] s = " " -> <<" ">>
      [] s = "is" -> <<"i", "s">>
      [] s = "SUMMARY" -> <<"S", "U", "M", "M", "A", "R", "Y">>
      [] s = "HELP" -> <<"H", "E", "L", "P">>
      [] s = "Verify" -> <<"V", "e", "r", "i", "f", "y">>
      [] s = "no" -> <<"n", "o">>
      [] s = "flagged" -> <<"f", "l", "a", "g", "g", "e", "d">>
      [] s = "anomal" -> <<"a", "n", "o", "m", "a", "l">>
      [] s = "csrd" -> <<"c", "s", "r", "d">>
      [] s = "compliance" -> <<"c", "o", "m", "p", "l", "i", "a", "n", "c", "e">>
      [] s = "dashboard" -> <<"d", "a", "s", "h", "b", "o", "a", "r", "d">>
      [] s = "audit" -> <<"a", "u", "d", "i", "t">>
      [] s = "who" -> <<"w", "h", "o">>
      [] s = "changed" -> <<"c", "h", "a", "n", "g", "e", "d">>
Last(s) == s[Len(s)]

----------------------------------------------------------------------------
(* server/storage.ts *)

\* randomUUID(): an id that was never handed out before
randomUUID == uuids + 1

\* the object createChatSession builds and stores
createChatSession(id, insertSession, t) ==
    [id |-> id,
     userId |-> insertSession.userId,
     organizationId |-> insertSession.organizationId,
     createdAt |-> t,
     lastActivity |-> t,
     messageCount |-> 0]

\* a mutant: the increment is dropped
updateSessionActivity_NoIncrement(sessions, id, t) ==
    IF id \in DOMAIN sessions
    THEN [sessions EXCEPT ![id].lastActivity = t]
    ELSE sessions

\* a mutant: lastActivity is set back to the epoch
updateSessionActivity_Epoch(sessions, id, t) ==
    IF id \in DOMAIN sessions
    THEN [sessions EXCEPT ![id].lastActivity = 0,
                          ![id].messageCount = @ + 1]
    ELSE sessions

\* updateSessionActivity: a missing session is skipped silently
updateSessionActivity(sessions, id, t) ==
    IF id \in DOMAIN sessions
    THEN [sessions EXCEPT ![id].lastActivity = t,
                          ![id].messageCount = @ + 1]
    ELSE sessions

\* the object createChatMessage builds and stores
createChatMessage(id, insertMessage, t) ==
    [id |-> id,
     sessionId |-> insertMessage.sessionId,
     role |-> insertMessage.role,
     content |-> insertMessage.content,
     intent |-> insertMessage.intent,
     suggestedPrompts |-> insertMessage.suggestedPrompts,
     metadata |-> insertMessage.metadata,
     timestamp |-> t]

\* a mutant: an unstable sort, which puts a message before those of its timestamp
RECURSIVE InsertByTimestamp_TiesFirst(_, _)
InsertByTimestamp_TiesFirst(m, sorted) ==
    IF sorted = <<>> THEN <<m>>
    ELSE IF Last(sorted).timestamp - m.timestamp >= 0
         THEN Append(InsertByTimestamp_TiesFirst(m, SubSeq(sorted, 1, Len(sorted) - 1)),
                     Last(sorted))
         ELSE Append(sorted, m)

\* Array.prototype.sort with (a, b) => a.timestamp - b.timestamp: a stable
\* sort, here by insertion from the left
RECURSIVE InsertByTimestamp(_, _)
InsertByTimestamp(m, sorted) ==
    IF sorted = <<>> THEN <<m>>
    ELSE IF Last(sorted).timestamp - m.timestamp > 0
         THEN Append(InsertByTimestamp(m, SubSeq(sorted, 1, Len(sorted) - 1)),
                     Last(sorted))
         ELSE Append(sorted, m)

RECURSIVE SortByTimestamp(_)
SortByTimestamp(s) ==
    IF s = <<>> THEN <<>>
    ELSE InsertByTimestamp(Last(s), SortByTimestamp(SubSeq(s, 1, Len(s) - 1)))

getMessagesBySessionId(messages, sessionId) ==
    SortByTimestamp(SelectSeq(messages, LAMBDA m : m.sessionId = sessionId))

getChatSession(sessions, id) ==
    IF id \in DOMAIN sessions THEN id ELSE NoSessionId

\* a mutant: the sessions of every user are returned
getSessionsByUserId_All(sessions, userId) ==
    SelectSeq([i \in 1..uuids |-> i], LAMBDA i : i \in DOMAIN sessions)

\* getSessionsByUserId: the ids of the user's sessions, in Map insertion order
getSessionsByUserId(sessions, userId) ==
    SelectSeq([i \in 1..uuids |-> i],
              LAMBDA i : i \in DOMAIN sessions /\ sessions[i].userId = userId)

\* new Date(): the values a read of the clock can return after it returned t,
\* in a run whose clock goes up to max
ClockReads(t, max) == t .. Min(t + 1, max)

\* The state change of one createChatMessage call: the message is stamped (t1)
\* and stored, then updateSessionActivity reads the clock a second time (t2).
AppendMessageAt(insertMessage, t1, t2) ==
    /\ chatMessages' = Append(chatMessages,
                              createChatMessage(randomUUID, insertMessage, t1))
    /\ chatSessions' = updateSessionActivity(chatSessions, insertMessage.sessionId, t2)
    /\ uuids' = uuids + 1
    /\ now' = t2

AppendMessage(insertMessage, max) ==
    \E t1 \in ClockReads(now, max) : \E t2 \in ClockReads(t1, max) :
        AppendMessageAt(insertMessage, t1, t2)

\* The state change of one createChatSession call
AddSession(insertSession, max) ==
    \E t \in ClockReads(now, max) :
        /\ chatSessions' =
              [i \in DOMAIN chatSessions \cup {randomUUID} |->
                  IF i = randomUUID
                  THEN createChatSession(randomUUID, insertSession, t)
                  ELSE chatSessions[i]]
        /\ uuids' = uuids + 1
        /\ now' = t

\* the object createUserContext builds and stores under insertContext.userId
createUserContext(id, insertContext, t) ==
    [id |-> id,
     userId |-> insertContext.userId,
     role |-> insertContext.role,
     organizationId |-> insertContext.organizationId,
     createdAt |-> t,
     updatedAt |-> t]

\* the object updateUserContext builds: { ...existing, ...updates, updatedAt }
updateUserContext(existing, updates, t) ==
    [f \in DOMAIN existing \cup DOMAIN updates \cup {"updatedAt"} |->
        IF f = "updatedAt" THEN t
        ELSE IF f \in DOMAIN updates THEN updates[f] ELSE existing[f]]

----------------------------------------------------------------------------
(* Direct calls of the storage interface *)

NoResult == [op |-> "none", call |-> 0, sessionId |-> NoSessionId,
             known |-> FALSE, value |-> <<>>, status |-> "ok"]

Contents == {"hi"}

\* metadata: null
NoMetadata == [tokensUsed |-> 0, latencyMs |-> 0, cached |-> FALSE]

StoreCreateChatSession(u) ==
    /\ apiResult.call < MaxCalls
    /\ AddSession([userId |-> u, organizationId |-> "org-456"], MaxClock)
    /\ apiResult' = [op |-> "createChatSession", call |-> apiResult.call + 1,
                     sessionId |-> randomUUID, known |-> TRUE,
                     value |-> <<>>, status |-> "ok"]
    /\ UNCHANGED <<chatMessages, gatewayVars, widget, userContexts>>

StoreCreateChatMessage(sid, role, content) ==
    /\ apiResult.call < MaxCalls
    /\ AppendMessage([sessionId |-> sid, role |-> role, content |-> content,
                      intent |-> "null",
                      suggestedPrompts |-> <<>>, metadata |-> NoMetadata],
                     MaxClock)
    /\ apiResult' = [op |-> "createChatMessage", call |-> apiResult.call + 1,
                     sessionId |-> sid, known |-> sid \in DOMAIN chatSessions,
                     value |-> <<randomUUID>>, status |-> "ok"]
    /\ UNCHANGED <<gatewayVars, widget, userContexts>>

StoreGetMessagesBySessionId(sid) ==
    /\ apiResult.call < MaxCalls
    /\ apiResult' = [op |-> "getMessagesBySessionId", call |-> apiResult.call + 1,
                     sessionId |-> sid, known |-> sid \in DOMAIN chatSessions,
                     value |-> getMessagesBySessionId(chatMessages, sid),
                     status |-> "ok"]
    /\ UNCHANGED <<storeVars, gatewayVars, widget, userContexts>>

\* the contexts seedInitialData creates
InsertUserContexts ==
    {[userId |-> "user-123", role |-> "ESG_ANALYST", organizationId |-> "org-456"],
     [userId |-> "user-456", role |-> "AUDITOR", organizationId |-> "org-456"]}

\* Partial<UserContext>: the updates a caller may give
UserContextUpdates ==
    {[f \in {} |-> 0],
     [role |-> "SUSTAINABILITY_MANAGER"],
     [role |-> "SUPPLIER", organizationId |-> "org-789"],
     [id |-> 0, createdAt |-> 0],
     [userId |-> "user-456"]}

StoreCreateUserContext(insertContext) ==
    /\ apiResult.call < MaxCalls
    /\ \E t \in ClockReads(now, MaxClock) :
        /\ userContexts' =
              [u \in DOMAIN userContexts \cup {insertContext.userId} |->
                  IF u = insertContext.userId
                  THEN createUserContext(randomUUID, insertContext, t)
                  ELSE userContexts[u]]
        /\ now' = t
    /\ uuids' = uuids + 1
    /\ apiResult' = [op |-> "createUserContext", call |-> apiResult.call + 1,
                     userId |-> insertContext.userId,
                     known |-> insertContext.userId \in DOMAIN userContexts,
                     updates |-> insertContext, status |-> "ok"]
    /\ UNCHANGED <<chatSessions, chatMessages, gatewayVars, widget>>

StoreUpdateUserContext(userId, updates) ==
    /\ apiResult.call < MaxCalls
    /\ IF userId \notin DOMAIN userContexts
       THEN \* throw new Error('User context not found ...')
            /\ apiResult' = [op |-> "updateUserContext", call |-> apiResult.call + 1,
                             userId |-> userId, known |-> FALSE,
                             updates |-> updates, status |-> "error"]
            /\ UNCHANGED <<storeVars, userContexts>>
       ELSE /\ \E t \in ClockReads(now, MaxClock) :
                /\ userContexts' =
                      [userContexts EXCEPT
                          ![userId] = updateUserContext(@, updates, t)]
                /\ now' = t
            /\ apiResult' = [op |-> "updateUserContext", call |-> apiResult.call + 1,
                             userId |-> userId, known |-> TRUE,
                             updates |-> updates, status |-> "ok"]
            /\ UNCHANGED <<chatSessions, chatMessages, uuids>>
    /\ UNCHANGED <<gatewayVars, widget>>

SessionArgs == DOMAIN chatSessions \cup {UnknownSessionId}


----------------------------------------------------------------------------
(* server/services/authService.ts *)

Bearer == <<"B", "e", "a", "r", "e", "r", " ">>

StartsWith(s, prefix) ==
    /\ Len(s) >= Len(prefix)
    /\ SubSeq(s, 1, Len(prefix)) = prefix

NoPrincipal == [sub |-> "", org_id |-> "", role |-> ""]
MockPayload == [sub |-> "user-123", org_id |-> "org-456", role |-> "ESG_ANALYST"]

\* verifyToken: null unless the token starts with "Bearer "
verifyToken(token) ==
    IF token = <<>> \/ ~StartsWith(token, Bearer)
    THEN NoPrincipal
    ELSE MockPayload

\* the Authorization headers and envelope tokens a caller sends
Tokens == {<<>>, Bearer \o <<"t">>, <<"B", "e", "a", "r", "e", "r">>}

----------------------------------------------------------------------------
(* shared/schema.ts: chatQueryRequestSchema *)

\* query: z.string().min(1).max(2000)
ValidQuery(query) ==
    /\ Len(Chars(query)) >= MinQueryLength
    /\ Len(Chars(query)) <= MaxQueryLength

\* the queries a caller sends: empty, well-formed, one character too long
Queries == {"", "why", "long"}

----------------------------------------------------------------------------
(* server/services/mcpLlmService.ts *)

\* String.prototype.split(' ')
RECURSIVE split(_)
split(text) ==
    IF \A i \in 1..Len(text) : text[i] # " "
    THEN <<text>>
    ELSE LET i == CHOOSE k \in 1..Len(text) :
                     /\ text[k] = " "
                     /\ \A j \in 1..(k - 1) : text[j] # " "
         IN  <<SubSeq(text, 1, i - 1)>> \o split(SubSeq(text, i + 1, Len(text)))

\* a mutant: the delimiter is not appended
streamResponse_NoDelimiter(text) == split(Chars(text))

\* streamResponse: the fragments the generator yields, in order
streamResponse(text) ==
    LET words == split(Chars(text))
    IN  [i \in 1..Len(words) |-> Append(words[i], " ")]

\* the texts callMcpLlm resolves with
Texts == {"hi yo"}

\* the responses callMcpLlm resolves with
LlmResponses == {[text |-> t, suggestedPrompts |-> <<"more">>] : t \in Texts}

\* formatResponse
formatResponse(llmResponse) == llmResponse.text

----------------------------------------------------------------------------
(* server/services/mcpLlmService.ts: enrichContext and detectIntent *)

\* UserRole
UserRoles == {"ESG_ANALYST", "AUDITOR"}

\* the fields of a SessionContext other than userRole, all optional, and the
\* value a client gives each
ClientFields == {"page", "pageType", "entityIds", "metricIds", "reportId",
                 "userAction"}
ClientValue(f) ==
    CASE f = "page" -> "/reports/q3"
      [] f = "pageType" -> "report"
      [] f = "entityIds" -> <<"entity-supplier-456">>
      [] f = "metricIds" -> <<"scope1-emissions">>
      [] f = "reportId" -> "report-1"
      [] f = "userAction" -> "viewing"

\* the context objects a client sends: any of the fields, with or without a
\* userRole of its own
SessionContexts ==
    {[f \in fs |-> ClientValue(f)] : fs \in SUBSET ClientFields}
    \cup {[f \in fs \cup {"userRole"} |->
              IF f = "userRole" THEN role ELSE ClientValue(f)] :
            fs \in SUBSET ClientFields, role \in UserRoles}

\* a mutant: the principal's role is written first and the spread over it
enrichContext_ClientWins(query, context, userRole, organizationName) ==
    [f \in DOMAIN context \cup {"userRole"} |->
        IF f \in DOMAIN context THEN context[f] ELSE userRole]

\* a mutant: only the role is returned
enrichContext_RoleOnly(query, context, userRole, organizationName) ==
    [f \in {"userRole"} |-> userRole]

\* enrichContext: { ...context, userRole }, a new object
enrichContext(query, context, userRole, organizationName) ==
    [f \in DOMAIN context \cup {"userRole"} |->
        IF f = "userRole" THEN userRole ELSE context[f]]

UpperCase == <<"A", "B", "C", "D", "E", "F", "G", "H", "I", "J", "K", "L", "M",
               "N", "O", "P", "Q", "R", "S", "T", "U", "V", "W", "X", "Y", "Z">>
LowerCase == <<"a", "b", "c", "d", "e", "f", "g", "h", "i", "j", "k", "l", "m",
               "n", "o", "p", "q", "r", "s", "t", "u", "v", "w", "x", "y", "z">>

\* String.prototype.toLowerCase
toLowerCase(s) ==
    [i \in 1..Len(s) |->
        IF \E k \in DOMAIN UpperCase : UpperCase[k] = s[i]
        THEN LowerCase[CHOOSE k \in DOMAIN UpperCase : UpperCase[k] = s[i]]
        ELSE s[i]]

\* String.prototype.includes
includes(s, searchString) ==
    \E i \in 0..(Len(s) - Len(searchString)) :
        SubSeq(s, i + 1, i + Len(searchString)) = searchString

\* a mutant: the guide rule is tried first
detectIntent_GuideFirst(query) ==
    LET lowerQuery == toLowerCase(query)
    IN  IF \/ includes(lowerQuery, Chars("help"))
           \/ includes(lowerQuery, Chars("guide"))
           \/ includes(lowerQuery, Chars("tutorial"))
        THEN "guide"
        ELSE IF \/ includes(lowerQuery, Chars("why"))
                \/ includes(lowerQuery, Chars("explain"))
                \/ includes(lowerQuery, Chars("what is"))
        THEN "explain"
        ELSE IF \/ includes(lowerQuery, Chars("summarize"))
                \/ includes(lowerQuery, Chars("summary"))
                \/ includes(lowerQuery, Chars("overview"))
        THEN "summarize"
        ELSE IF \/ includes(lowerQuery, Chars("how do i"))
                \/ includes(lowerQuery, Chars("where"))
                \/ includes(lowerQuery, Chars("navigate"))
        THEN "navigate"
        ELSE IF \/ includes(lowerQuery, Chars("validate"))
                \/ includes(lowerQuery, Chars("check"))
                \/ includes(lowerQuery, Chars("verify"))
        THEN "validate"
        ELSE "guide"

\* detectIntent: the query is a sequence of characters
detectIntent(query) ==
    LET lowerQuery == toLowerCase(query)
    IN  IF \/ includes(lowerQuery, Chars("why"))
           \/ includes(lowerQuery, Chars("explain"))
           \/ includes(lowerQuery, Chars("what is"))
        THEN "explain"
        ELSE IF \/ includes(lowerQuery, Chars("summarize"))
                \/ includes(lowerQuery, Chars("summary"))
                \/ includes(lowerQuery, Chars("overview"))
        THEN "summarize"
        ELSE IF \/ includes(lowerQuery, Chars("how do i"))
                \/ includes(lowerQuery, Chars("where"))
                \/ includes(lowerQuery, Chars("navigate"))
        THEN "navigate"
        ELSE IF \/ includes(lowerQuery, Chars("help"))
                \/ includes(lowerQuery, Chars("guide"))
                \/ includes(lowerQuery, Chars("tutorial"))
        THEN "guide"
        ELSE IF \/ includes(lowerQuery, Chars("validate"))
                \/ includes(lowerQuery, Chars("check"))
                \/ includes(lowerQuery, Chars("verify"))
        THEN "validate"
        ELSE "guide"

\* generateMockResponse, as far as the intent of its result goes
generateMockResponse(query) ==
    LET lowerQuery == toLowerCase(query)
    IN  [intent |->
            IF \/ includes(lowerQuery, Chars("flagged"))
               \/ includes(lowerQuery, Chars("anomal"))
            THEN "explain"
            ELSE IF \/ includes(lowerQuery, Chars("csrd"))
                    \/ includes(lowerQuery, Chars("compliance"))
            THEN "guide"
            ELSE IF \/ includes(lowerQuery, Chars("summarize"))
                    \/ includes(lowerQuery, Chars("dashboard"))
            THEN "summarize"
            ELSE IF \/ includes(lowerQuery, Chars("audit"))
                    \/ includes(lowerQuery, Chars("who"))
                    \/ includes(lowerQuery, Chars("changed"))
            THEN "explain"
            ELSE "guide"]

\* callMcpLlm: response.intent of generateMockResponse(query, ...), for the
\* queries the gateway is given
callMcpLlmIntent == [q \in Queries |-> generateMockResponse(Chars(q)).intent]

\* detectIntent(query) for the queries the gateway is given
detectIntentOf == [q \in Queries |-> detectIntent(Chars(q))]

\* the pieces the queries given to detectIntent are put together from
QueryFragments == {"Why", "explain", "what", " ", "is", "summarize", "SUMMARY",
                   "overview", "how do i", "where", "navigate", "HELP", "guide",
                   "tutorial", "validate", "check", "Verify", "no"}

\* the queries: up to MaxFragments pieces, one after the other
QueryInputs == UNION {[1..n -> QueryFragments] : n \in 0..MaxFragments}

\* the characters of a query given by its pieces
RECURSIVE Join(_)
Join(fragments) ==
    IF fragments = <<>> THEN <<>>
    ELSE Join(SubSeq(fragments, 1, Len(fragments) - 1)) \o Chars(Last(fragments))

(* Direct calls of the two functions.  The caller's arguments are in
   apiResult before the call. *)

\* the arguments a caller holds: a query, and for enrichContext a context
\* object and the principal's role as well
ServiceInputs ==
    {[op |-> "none", call |-> 0, query |-> fragments] : fragments \in QueryInputs}
    \cup {[op |-> "none", call |-> 0, query |-> fragments, context |-> context,
           userRole |-> userRole] :
            fragments \in {<<>>, <<"Why">>}, context \in SessionContexts,
            userRole \in UserRoles}

ServiceEnrichContext ==
    /\ apiResult.op = "none"
    /\ "context" \in DOMAIN apiResult
    /\ apiResult' = [op |-> "enrichContext", call |-> apiResult.call,
                     query |-> apiResult.query,
                     context |-> apiResult.context,   \* nothing is assigned to it
                     userRole |-> apiResult.userRole,
                     value |-> enrichContext(Join(apiResult.query),
                                             apiResult.context,
                                             apiResult.userRole,
                                             "Acme Sustainability Corp")]
    /\ UNCHANGED <<storeVars, gatewayVars, widget, userContexts>>

ServiceDetectIntent ==
    /\ apiResult.op = "none"
    /\ apiResult' = [op |-> "detectIntent", call |-> apiResult.call,
                     query |-> apiResult.query,
                     value |-> detectIntent(Join(apiResult.query))]
    /\ UNCHANGED <<storeVars, gatewayVars, widget, userContexts>>

----------------------------------------------------------------------------
(* server/routes.ts: state of one unit of work *)

NewReq(kind, conn, token, sessionId, query) ==
    [kind |-> kind,             \* "rest" or "ws"
     pc |-> "done",             \* where the handler is suspended
     conn |-> conn,             \* the connection of a chat_query, 0 for REST
     token |-> token,           \* the Authorization header or the envelope's token
     sessionId |-> sessionId,   \* the sessionId the caller supplied
     query |-> query,
     session |-> NoSessionId,   \* the handler's local variable session
     created |-> NoSessionId,   \* the session this unit created, if any
     saved |-> <<>>,            \* ids of the messages this unit persisted
     llmCalls |-> 0,            \* calls of callMcpLlm
     failed |-> FALSE,          \* callMcpLlm rejected
     closedSends |-> 0,         \* ws.send calls made while the socket was not open
     history |-> <<>>,          \* sessionHistory handed to callMcpLlm
     intent |-> "",             \* const intent = detectIntent(query)
     llmIntent |-> "",          \* llmResponse.intent
     text |-> "",               \* formattedText
     prompts |-> <<>>,          \* llmResponse.suggestedPrompts
     idx |-> 0,                 \* fragments taken from streamResponse so far
     messageId |-> 0,           \* assistantMessage.id
     messages |-> <<>>,         \* messages read by GET /sessions/:id
     sessions |-> <<>>,         \* sessions read by GET /sessions
     body |-> <<>>,             \* messages or sessions of the REST response body
     status |-> 0]              \* HTTP status of the REST response

Envelope(type, r, sessionId, text, code, messageId) ==
    [type |-> type, req |-> r, sessionId |-> sessionId, text |-> text,
     code |-> code, messageId |-> messageId,
     suggestedPrompts |-> <<>>, metadata |-> NoMetadata]

\* the complete envelope
Complete(r, sessionId, messageId, suggestedPrompts, metadata) ==
    [Envelope("complete", r, sessionId, <<>>, "", messageId)
        EXCEPT !.suggestedPrompts = suggestedPrompts, !.metadata = metadata]

\* a mutant: the envelope reaches the peer whatever the state of the socket
Send_Unguarded(c, envelope) == sent' = [sent EXCEPT ![c] = Append(@, envelope)]

\* ws.send: data given to a socket that is not OPEN is dropped
Send(c, envelope) ==
    IF readyState[c] = "OPEN"
    THEN sent' = [sent EXCEPT ![c] = Append(@, envelope)]
    ELSE sent' = sent

\* a mutant: the message is stored under the sessionId the caller supplied
UserMessage_SuppliedSessionId(r) ==
    [sessionId |-> req[r].sessionId, role |-> "user", content |-> req[r].query,
     intent |-> "null",
     suggestedPrompts |-> <<>>, metadata |-> NoMetadata]

UserMessage(r) ==
    [sessionId |-> req[r].session, role |-> "user", content |-> req[r].query,
     intent |-> "null",
     suggestedPrompts |-> <<>>, metadata |-> NoMetadata]

\* metadata: { tokensUsed: Math.floor(formattedText.length / 4), latencyMs: 1250,
\* cached: false }
Metadata(text) ==
    [tokensUsed |-> Len(Chars(text)) \div 4, latencyMs |-> 1250, cached |-> FALSE]

AssistantMessage(r, text, suggestedPrompts) ==
    [sessionId |-> req[r].session, role |-> "assistant", content |-> text,
     intent |-> callMcpLlmIntent[req[r].query],     \* llmResponse.intent
     suggestedPrompts |-> suggestedPrompts, metadata |-> Metadata(text)]

\* the stored message createChatMessage returned with this id
MessageById(id) ==
    chatMessages[CHOOSE i \in 1..Len(chatMessages) : chatMessages[i].id = id]

\* msgs.slice(-10).map(m => ({ role, content }))
RecentHistory(msgs) ==
    LET from == IF Len(msgs) > HistoryWindow THEN Len(msgs) - HistoryWindow + 1 ELSE 1
    IN  [i \in 1..(Len(msgs) - from + 1) |->
            [role |-> msgs[from + i - 1].role, content |-> msgs[from + i - 1].content]]

----------------------------------------------------------------------------
(* POST /api/v1/copilot/chat *)

\* if (!session || session.userId !== user.sub) on the supplied-session branch
RestSessionRejected(r) ==
    /\ req[r].sessionId # NoSessionId
    /\ \/ req[r].session = NoSessionId
       \/ chatSessions[req[r].session].userId # MockPayload.sub

\* a mutant: the middleware lets every request through
RestUnauthorized_Never(payload) == FALSE

\* authMiddleware: if (!payload)
RestUnauthorized(payload) == payload = NoPrincipal

\* authMiddleware, safeParse, then getChatSession or createChatSession
RestChat(authHeader, sessionId, query) ==
    /\ Len(req) < MaxRequests
    /\ LET user == verifyToken(authHeader)
           r == NewReq("rest", 0, authHeader, sessionId, query)
       IN  IF RestUnauthorized(user)
           THEN /\ req' = Append(req, [r EXCEPT !.status = 401])
                /\ UNCHANGED storeVars
           ELSE IF ~ValidQuery(query)
           THEN /\ req' = Append(req, [r EXCEPT !.status = 400])
                /\ UNCHANGED storeVars
           ELSE IF sessionId # NoSessionId
           THEN /\ req' = Append(req, [r EXCEPT !.pc = "r_session",
                                 !.session = getChatSession(chatSessions, sessionId)])
                /\ UNCHANGED storeVars
           ELSE /\ AddSession([userId |-> user.sub, organizationId |-> user.org_id],
                                MaxGatewayClock)
                /\ req' = Append(req, [r EXCEPT !.pc = "r_session",
                                                !.session = randomUUID,
                                                !.created = randomUUID])
                /\ UNCHANGED chatMessages
    /\ UNCHANGED <<apiResult, widget, userContexts, readyState, sent>>

\* the ownership check, then the user message is saved
RestSaveUser(r) ==
    /\ req[r].pc = "r_session"
    /\ IF RestSessionRejected(r)
       THEN /\ req' = [req EXCEPT ![r].pc = "done", ![r].status = 404]
            /\ UNCHANGED storeVars
       ELSE /\ AppendMessage(UserMessage(r), MaxGatewayClock)
            /\ req' = [req EXCEPT ![r].pc = "r_saved",
                                  ![r].saved = Append(@, randomUUID)]
    /\ UNCHANGED <<apiResult, widget, userContexts, readyState, sent>>

\* the unit is suspended in await callMcpLlm(...)
Waiting(r) == req[r].pc \in {"r_generating", "w_generating"}

\* a mutant: callMcpLlm is called by one unit of work at a time
RestCallLlm_OneAtATime(r) ==
    /\ \A o \in DOMAIN req : ~Waiting(o)
    /\ req[r].pc = "r_saved"
    /\ req' = [req EXCEPT
          ![r].pc = "r_generating",
          ![r].llmCalls = @ + 1,
          ![r].intent = detectIntentOf[req[r].query],
          ![r].history =
              RecentHistory(getMessagesBySessionId(chatMessages, req[r].session))]
    /\ UNCHANGED <<storeVars, apiResult, widget, userContexts, readyState, sent>>

\* enrichContext, detectIntent, the history is read and callMcpLlm is called
RestCallLlm(r) ==
    /\ req[r].pc = "r_saved"
    /\ req' = [req EXCEPT
          ![r].pc = "r_generating",
          ![r].llmCalls = @ + 1,
          ![r].intent = detectIntentOf[req[r].query],
          ![r].history =
              RecentHistory(getMessagesBySessionId(chatMessages, req[r].session))]
    /\ UNCHANGED <<storeVars, apiResult, widget, userContexts, readyState, sent>>

\* a mutant: the response names the user message
RestLlmReturns_UserMessageId(r, llmResponse) ==
    /\ req[r].pc = "r_generating"
    /\ AppendMessage(AssistantMessage(r, formatResponse(llmResponse),
                                      llmResponse.suggestedPrompts),
                     MaxGatewayClock)
    /\ req' = [req EXCEPT ![r].pc = "r_assistant",
                          ![r].text = formatResponse(llmResponse),
                          ![r].llmIntent = callMcpLlmIntent[req[r].query],
                          ![r].prompts = llmResponse.suggestedPrompts,
                          ![r].messageId = req[r].saved[1],
                          ![r].saved = Append(@, randomUUID)]
    /\ UNCHANGED <<apiResult, widget, userContexts, readyState, sent>>

\* callMcpLlm resolves: formatResponse, then the assistant message is saved
RestLlmReturns(r, llmResponse) ==
    /\ req[r].pc = "r_generating"
    /\ AppendMessage(AssistantMessage(r, formatResponse(llmResponse),
                                      llmResponse.suggestedPrompts),
                     MaxGatewayClock)
    /\ req' = [req EXCEPT ![r].pc = "r_assistant",
                          ![r].text = formatResponse(llmResponse),
                          ![r].llmIntent = callMcpLlmIntent[req[r].query],
                          ![r].prompts = llmResponse.suggestedPrompts,
                          ![r].messageId = randomUUID,
                          ![r].saved = Append(@, randomUUID)]
    /\ UNCHANGED <<apiResult, widget, userContexts, readyState, sent>>

\* callMcpLlm rejects: the catch block answers 500
RestLlmThrows(r) ==
    /\ req[r].pc = "r_generating"
    /\ req' = [req EXCEPT ![r].pc = "done", ![r].failed = TRUE, ![r].status = 500]
    /\ UNCHANGED <<storeVars, apiResult, widget, userContexts, readyState, sent>>

\* res.json(response)
RestRespond(r) ==
    /\ req[r].pc = "r_assistant"
    /\ req' = [req EXCEPT ![r].pc = "done", ![r].status = 200]
    /\ UNCHANGED <<storeVars, apiResult, widget, userContexts, readyState, sent>>

----------------------------------------------------------------------------
(* GET /api/v1/copilot/sessions/:id *)

\* authMiddleware, then storage.getChatSession(sessionId)
RestGetSession(authHeader, sessionId) ==
    /\ Len(req) < MaxReads
    /\ LET user == verifyToken(authHeader)
           r == NewReq("get", 0, authHeader, sessionId, "")
       IN  IF RestUnauthorized(user)
           THEN req' = Append(req, [r EXCEPT !.status = 401])
           ELSE req' = Append(req, [r EXCEPT !.pc = "g_session",
                               !.session = getChatSession(chatSessions, sessionId)])
    /\ UNCHANGED <<storeVars, apiResult, widget, userContexts, readyState, sent>>

\* a mutant: the owner is not compared with the caller
RestGetForbidden_Never(r) == FALSE

\* if (session.userId !== user.sub)
RestGetForbidden(r) == chatSessions[req[r].session].userId # MockPayload.sub

\* 404, 403, or storage.getMessagesBySessionId(sessionId)
RestGetMessages(r) ==
    /\ req[r].pc = "g_session"
    /\ IF req[r].session = NoSessionId
       THEN req' = [req EXCEPT ![r].pc = "done", ![r].status = 404]
       ELSE IF RestGetForbidden(r)
       THEN req' = [req EXCEPT ![r].pc = "done", ![r].status = 403]
       ELSE req' = [req EXCEPT ![r].pc = "g_messages",
                     ![r].messages =
                         getMessagesBySessionId(chatMessages, req[r].sessionId)]
    /\ UNCHANGED <<storeVars, apiResult, widget, userContexts, readyState, sent>>

\* res.json({ ..., messages: messages.map(...) })
RestGetRespond(r) ==
    /\ req[r].pc = "g_messages"
    /\ req' = [req EXCEPT ![r].pc = "done", ![r].status = 200,
                          ![r].body = req[r].messages]
    /\ UNCHANGED <<storeVars, apiResult, widget, userContexts, readyState, sent>>

----------------------------------------------------------------------------
(* GET /api/v1/copilot/sessions *)

\* authMiddleware, then storage.getSessionsByUserId(user.sub)
RestListSessions(authHeader) ==
    /\ Len(req) < MaxReads
    /\ LET user == verifyToken(authHeader)
           r == NewReq("list", 0, authHeader, NoSessionId, "")
       IN  IF RestUnauthorized(user)
           THEN req' = Append(req, [r EXCEPT !.status = 401])
           ELSE req' = Append(req, [r EXCEPT !.pc = "l_sessions",
                                            !.sessions =
                                   getSessionsByUserId(chatSessions, user.sub)])
    /\ UNCHANGED <<storeVars, apiResult, widget, userContexts, readyState, sent>>

\* res.json({ sessions: sessions.map(...) })
RestListRespond(r) ==
    /\ req[r].pc = "l_sessions"
    /\ req' = [req EXCEPT ![r].pc = "done", ![r].status = 200,
                          ![r].body = req[r].sessions]
    /\ UNCHANGED <<storeVars, apiResult, widget, userContexts, readyState, sent>>

----------------------------------------------------------------------------
(* WebSocket /ws *)

\* wss.on('connection')
OpenConnection ==
    /\ Cardinality({c \in 1..Len(readyState) : readyState[c] = "OPEN"}) < MaxConns
    /\ Len(readyState) < MaxConns + MaxReconnects
    /\ readyState' = Append(readyState, "OPEN")
    /\ sent' = Append(sent, <<>>)
    /\ UNCHANGED <<storeVars, apiResult, widget, userContexts, req>>

\* the peer goes away: ws.on('close')
CloseConnection(c) ==
    /\ readyState[c] = "OPEN"
    /\ readyState' = [readyState EXCEPT ![c] = "CLOSED"]
    /\ UNCHANGED <<storeVars, apiResult, widget, userContexts, req, sent>>

\* ws.on('message'): if (!user)
WsUnauthorized(user) == user = NoPrincipal

\* ws.on('message') with type chat_query, up to its first await
WsChatQuery(c, token, sessionId, query) ==
    /\ Len(req) < MaxRequests
    /\ readyState[c] = "OPEN"
    /\ LET user == verifyToken(token)
           r == NewReq("ws", c, token, sessionId, query)
           n == Len(req) + 1
       IN  IF WsUnauthorized(user)
           THEN /\ req' = Append(req, r)
                /\ Send(c, Envelope("error", n, NoSessionId, <<>>, "UNAUTHORIZED", 0))
                /\ UNCHANGED storeVars
           ELSE /\ Send(c, Envelope("typing", n, sessionId, <<>>, "", 0))
                /\ IF sessionId # NoSessionId
                   THEN /\ req' = Append(req, [r EXCEPT !.pc = "w_session",
                                 !.session = getChatSession(chatSessions, sessionId)])
                        /\ UNCHANGED storeVars
                   ELSE /\ AddSession([userId |-> user.sub,
                                       organizationId |-> user.org_id],
                                      MaxGatewayClock)
                        /\ req' = Append(req, [r EXCEPT !.pc = "w_created",
                                                        !.session = randomUUID,
                                                        !.created = randomUUID])
                        /\ UNCHANGED chatMessages
    /\ UNCHANGED <<apiResult, widget, userContexts, readyState>>

\* if (!session) session = await storage.createChatSession(...)
WsCreateSession(r) ==
    /\ req[r].pc = "w_session"
    /\ req[r].session = NoSessionId
    /\ AddSession([userId |-> MockPayload.sub, organizationId |-> MockPayload.org_id],
                  MaxGatewayClock)
    /\ req' = [req EXCEPT ![r].pc = "w_created",
                          ![r].session = randomUUID,
                          ![r].created = randomUUID]
    /\ UNCHANGED <<chatMessages, apiResult, widget, userContexts, readyState, sent>>

\* await storage.createChatMessage({ role: 'user', ... })
WsSaveUser(r) ==
    /\ \/ req[r].pc = "w_created"
       \/ req[r].pc = "w_session" /\ req[r].session # NoSessionId
    /\ AppendMessage(UserMessage(r), MaxGatewayClock)
    /\ req' = [req EXCEPT ![r].pc = "w_saved", ![r].saved = Append(@, randomUUID)]
    /\ UNCHANGED <<apiResult, widget, userContexts, readyState, sent>>

\* enrichContext, detectIntent, callMcpLlm is called with an empty history
WsCallLlm(r) ==
    /\ req[r].pc = "w_saved"
    /\ req' = [req EXCEPT ![r].pc = "w_generating", ![r].llmCalls = @ + 1,
                          ![r].intent = detectIntentOf[req[r].query]]
    /\ UNCHANGED <<storeVars, apiResult, widget, userContexts, readyState, sent>>

\* callMcpLlm resolves: formatResponse, the generator is started
WsLlmReturns(r, llmResponse) ==
    /\ req[r].pc = "w_generating"
    /\ req' = [req EXCEPT ![r].pc = "w_streaming",
                          ![r].text = formatResponse(llmResponse),
                          ![r].llmIntent = callMcpLlmIntent[req[r].query],
                          ![r].prompts = llmResponse.suggestedPrompts]
    /\ UNCHANGED <<storeVars, apiResult, widget, userContexts, readyState, sent>>

\* a mutant: the catch block only logs
WsLlmThrows_Silent(r) ==
    /\ req[r].pc = "w_generating"
    /\ req' = [req EXCEPT ![r].pc = "done", ![r].failed = TRUE]
    /\ UNCHANGED <<storeVars, apiResult, widget, userContexts, readyState, sent>>

\* a mutant: the handler goes on to stream after the error envelope
WsLlmThrows_Continues(r) ==
    /\ req[r].pc = "w_generating"
    /\ req' = [req EXCEPT ![r].pc = "w_streaming", ![r].failed = TRUE]
    /\ Send(req[r].conn, Envelope("error", r, NoSessionId, <<>>, "INTERNAL_ERROR", 0))
    /\ UNCHANGED <<storeVars, apiResult, widget, userContexts, readyState>>

\* callMcpLlm rejects: the catch block calls ws.send with an error envelope,
\* whatever the socket's readyState is
WsLlmThrows(r) ==
    /\ req[r].pc = "w_generating"
    /\ req' = [req EXCEPT
          ![r].pc = "done",
          ![r].failed = TRUE,
          ![r].closedSends =
              IF readyState[req[r].conn] = "OPEN" THEN @ ELSE @ + 1]
    /\ Send(req[r].conn, Envelope("error", r, NoSessionId, <<>>, "INTERNAL_ERROR", 0))
    /\ UNCHANGED <<storeVars, apiResult, widget, userContexts, readyState>>

\* a mutant: the fragments are taken from the end
NextFragment_FromEnd(r) ==
    streamResponse(req[r].text)[Len(streamResponse(req[r].text)) - req[r].idx]

\* the fragment the for await loop receives next
NextFragment(r) == streamResponse(req[r].text)[req[r].idx + 1]

\* a mutant: the fragment is sent on the connection that was opened last
WsToken_OnLatest(r) ==
    /\ req[r].pc = "w_streaming"
    /\ req[r].idx < Len(streamResponse(req[r].text))
    /\ req' = [req EXCEPT ![r].idx = @ + 1]
    /\ Send(Len(readyState),
            Envelope("token", r, req[r].session, NextFragment(r), "", 0))
    /\ UNCHANGED <<storeVars, apiResult, widget, userContexts, readyState>>

\* one round of the for await loop: the next fragment is sent if the socket is open
WsToken(r) ==
    /\ req[r].pc = "w_streaming"
    /\ req[r].idx < Len(streamResponse(req[r].text))
    /\ req' = [req EXCEPT ![r].idx = @ + 1]
    /\ Send(req[r].conn,
            Envelope("token", r, req[r].session, NextFragment(r), "", 0))
    /\ UNCHANGED <<storeVars, apiResult, widget, userContexts, readyState>>

\* a mutant: the assistant message is saved only if the socket is open
WsSaveAssistant_OnlyIfOpen(r) ==
    /\ req[r].pc = "w_streaming"
    /\ req[r].idx = Len(streamResponse(req[r].text))
    /\ IF readyState[req[r].conn] = "OPEN"
       THEN /\ AppendMessage(AssistantMessage(r, req[r].text, req[r].prompts),
                             MaxGatewayClock)
            /\ req' = [req EXCEPT ![r].pc = "w_assistant",
                                  ![r].messageId = randomUUID,
                                  ![r].saved = Append(@, randomUUID)]
       ELSE /\ req' = [req EXCEPT ![r].pc = "done"]
            /\ UNCHANGED storeVars
    /\ UNCHANGED <<apiResult, widget, userContexts, readyState, sent>>

\* the generator is exhausted: the assistant message is saved
WsSaveAssistant(r) ==
    /\ req[r].pc = "w_streaming"
    /\ req[r].idx = Len(streamResponse(req[r].text))
    /\ AppendMessage(AssistantMessage(r, req[r].text, req[r].prompts),
                     MaxGatewayClock)
    /\ req' = [req EXCEPT ![r].pc = "w_assistant",
                          ![r].messageId = randomUUID,
                          ![r].saved = Append(@, randomUUID)]
    /\ UNCHANGED <<apiResult, widget, userContexts, readyState, sent>>

\* a mutant: the complete envelope carries the id of the user message
WsComplete_UserMessageId(r) ==
    /\ req[r].pc = "w_assistant"
    /\ req' = [req EXCEPT ![r].pc = "done"]
    /\ Send(req[r].conn,
            Complete(r, req[r].session, req[r].saved[1], req[r].prompts,
                     MessageById(req[r].messageId).metadata))
    /\ UNCHANGED <<storeVars, apiResult, widget, userContexts, readyState>>

\* the complete envelope is sent if the socket is open
WsComplete(r) ==
    /\ req[r].pc = "w_assistant"
    /\ req' = [req EXCEPT ![r].pc = "done"]
    /\ Send(req[r].conn,
            Complete(r, req[r].session, req[r].messageId, req[r].prompts,
                     MessageById(req[r].messageId).metadata))
    /\ UNCHANGED <<storeVars, apiResult, widget, userContexts, readyState>>

----------------------------------------------------------------------------
(* The event loop: what a unit of work does when it is resumed *)

\* the continuation of unit r after an await of the store or of the pacing
\* delay: the event loop runs it as soon as the promise has resolved
PipelineStep(r) ==
    /\ r \in DOMAIN req
    /\ \/ RestSaveUser(r)
       \/ RestCallLlm(r)
       \/ RestRespond(r)
       \/ WsCreateSession(r)
       \/ WsSaveUser(r)
       \/ WsCallLlm(r)
       \/ WsToken(r)
       \/ WsSaveAssistant(r)
       \/ WsComplete(r)

\* the continuation of unit r after await callMcpLlm(...): it runs when the
\* generator settles the promise
GeneratorSettles(r) ==
    /\ r \in DOMAIN req
    /\ \/ \E llmResponse \in LlmResponses : RestLlmReturns(r, llmResponse)
       \/ \E llmResponse \in LlmResponses : WsLlmReturns(r, llmResponse)
       \/ RestLlmThrows(r)
       \/ WsLlmThrows(r)

\* the sessionId values a caller can put in a request
SessionIdInputs == {NoSessionId, UnknownSessionId} \cup DOMAIN chatSessions

\* the requests a caller sends: a well-formed one, and every way of getting
\* one of its three parts wrong
ChatInputs ==
    {<<Bearer \o <<"t">>, sid, "why">> : sid \in SessionIdInputs}
    \cup {<<Bearer \o <<"t">>, NoSessionId, q>> : q \in Queries}
    \cup {<<t, NoSessionId, "why">> : t \in Tokens}

\* sessions of other principals, created before the gateway takes traffic
SeedSession(u) ==
    /\ Cardinality(DOMAIN chatSessions) < MaxSeeded
    /\ req = <<>>
    /\ readyState = <<>>
    /\ AddSession([userId |-> u, organizationId |-> "org-456"], MaxGatewayClock)
    /\ UNCHANGED <<chatMessages, apiResult, widget, userContexts, gatewayVars>>

----------------------------------------------------------------------------
(* client/src/components/ChatWidget.tsx, client/src/hooks/useChatApi.ts *)

NoSocket == 0    \* wsRef.current = null

\* the widget when it is mounted: useState(false), useRef(null), and the first
\* run of the connection effect, which connects nothing
NewWidget ==
    [isOpen |-> FALSE,          \* the isOpen state
     cleanupIsOpen |-> FALSE,   \* isOpen in the closure of the effect's cleanup
     wsRef |-> NoSocket,        \* wsRef.current
     sockets |-> <<>>,          \* the WebSockets connectWebSocket created
     timers |-> <<>>,           \* the setTimeout calls of handleWebSocketClose
     isTyping |-> FALSE,        \* the isTyping state
     sessionId |-> NoSessionId, \* the sessionId state
     submitted |-> <<>>,        \* the calls of handleSend that passed its guard
     serverSessions |-> 0]      \* sessions the server created for the widget

\* connectWebSocket(handleWebSocketMessage, handleWebSocketClose): a socket
\* whose onclose calls the handleWebSocketClose of the render that is given,
\* with the isOpen of that render in its closure
connectWebSocket(w, closureIsOpen, timer) ==
    [w EXCEPT !.sockets = Append(@, [readyState |-> "CONNECTING",
                                     onCloseIsOpen |-> closureIsOpen,
                                     timer |-> timer,
                                     listeners |-> <<>>,
                                     transmitted |-> <<>>]),
              !.wsRef = Len(w.sockets) + 1]

\* WebSocket.close()
close(w, s) ==
    [w EXCEPT !.sockets[s].readyState =
                  IF @ \in {"CONNECTING", "OPEN"} THEN "CLOSING" ELSE @]

\* the cleanup the connection effect returned in the previous render
EffectCleanup(w) ==
    IF ~w.cleanupIsOpen /\ w.wsRef # NoSocket
    THEN [close(w, w.wsRef) EXCEPT !.wsRef = NoSocket]
    ELSE w

\* the connection effect of a render with state isOpen
ConnectionEffect(w, isOpen) ==
    LET connected == IF isOpen /\ w.wsRef = NoSocket
                     THEN connectWebSocket(w, isOpen, 0)
                     ELSE w
    IN  [connected EXCEPT !.cleanupIsOpen = isOpen]

\* A render with state isOpen.  connectWebSocket is a new function in every
\* render, so the dependencies of the effect differ in every render: the
\* previous cleanup runs, then the effect.
Render(w, isOpen) ==
    [ConnectionEffect(EffectCleanup(w), isOpen) EXCEPT !.isOpen = isOpen]

\* onClick: setIsOpen(true) or setIsOpen(false), and the render it causes
SetIsOpen(isOpen) ==
    /\ widget.isOpen # isOpen
    /\ widget' = Render(widget, isOpen)
    /\ Len(widget'.sockets) <= MaxSockets
    /\ UNCHANGED <<storeVars, apiResult, gatewayVars, userContexts>>

\* a render caused by another state update (setInput, setMessages, ...)
Rerender ==
    /\ widget' = Render(widget, widget.isOpen)
    /\ Len(widget'.sockets) <= MaxSockets
    /\ UNCHANGED <<storeVars, apiResult, gatewayVars, userContexts>>

\* the send closure of sendMessage: socket.send if the socket is open
send(w, s, message) ==
    IF w.sockets[s].readyState = "OPEN"
    THEN [w EXCEPT !.sockets[s].transmitted =
                       Append(@, [message EXCEPT !.phase = "sent"])]
    ELSE w

\* the listeners addEventListener('open', send, { once: true }) registered on
\* socket s, called in the order of their registration and removed
RECURSIVE DispatchOpen(_, _)
DispatchOpen(w, s) ==
    IF w.sockets[s].listeners = <<>>
    THEN w
    ELSE DispatchOpen(
             send([w EXCEPT !.sockets[s].listeners = Tail(@)], s,
                  Head(w.sockets[s].listeners)), s)

\* a mutant: a query given to a connecting socket is dropped
sendMessage_NoQueue(w, s, message) ==
    IF s = NoSocket
    THEN w
    ELSE IF w.sockets[s].readyState = "OPEN"
         THEN send(w, s, message)
         ELSE w

\* sendMessage(socket, sessionId, query, context)
sendMessage(w, s, message) ==
    IF s = NoSocket
    THEN w
    ELSE IF w.sockets[s].readyState = "CONNECTING"
         THEN [w EXCEPT !.sockets[s].listeners = Append(@, message)]
         ELSE IF w.sockets[s].readyState = "OPEN"
              THEN send(w, s, message)
              ELSE w

\* the open event of socket s: socket.onopen, then the listeners
SocketOpens(s) ==
    /\ widget.sockets[s].readyState = "CONNECTING"
    /\ widget' = DispatchOpen([widget EXCEPT !.sockets[s].readyState = "OPEN"], s)
    /\ UNCHANGED <<storeVars, apiResult, gatewayVars, userContexts>>

\* handleWebSocketClose, called by the onclose of socket s
handleWebSocketClose(w, s) ==
    LET cleared == [w EXCEPT !.wsRef = NoSocket]
    IN  IF w.sockets[s].onCloseIsOpen
        THEN [cleared EXCEPT !.timers =
                 Append(@, [isOpen |-> w.sockets[s].onCloseIsOpen,
                            socket |-> s, fired |-> FALSE])]
        ELSE cleared

\* the server closes the connection, or the connection attempt fails: onclose
SocketLost(s) ==
    /\ widget.sockets[s].readyState \in {"CONNECTING", "OPEN"}
    /\ widget' = handleWebSocketClose(
                     [widget EXCEPT !.sockets[s].readyState = "CLOSED"], s)
    /\ UNCHANGED <<storeVars, apiResult, gatewayVars, userContexts>>

\* the closing handshake of a close() ends: onclose
SocketClosed(s) ==
    /\ widget.sockets[s].readyState = "CLOSING"
    /\ widget' = handleWebSocketClose(
                     [widget EXCEPT !.sockets[s].readyState = "CLOSED"], s)
    /\ UNCHANGED <<storeVars, apiResult, gatewayVars, userContexts>>

\* a mutant: the timer reconnects whatever wsRef holds
TimerFires_Unchecked(t) ==
    /\ ~widget.timers[t].fired
    /\ widget' = connectWebSocket([widget EXCEPT !.timers[t].fired = TRUE],
                                  widget.timers[t].isOpen, t)
    /\ Len(widget'.sockets) <= MaxSockets
    /\ UNCHANGED <<storeVars, apiResult, gatewayVars, userContexts>>

\* the callback of setTimeout(..., 1000): if (isOpen && !wsRef.current)
TimerFires(t) ==
    /\ ~widget.timers[t].fired
    /\ LET w == [widget EXCEPT !.timers[t].fired = TRUE]
       IN  widget' = IF widget.timers[t].isOpen /\ widget.wsRef = NoSocket
                     THEN connectWebSocket(w, widget.timers[t].isOpen, t)
                     ELSE w
    /\ Len(widget'.sockets) <= MaxSockets
    /\ UNCHANGED <<storeVars, apiResult, gatewayVars, userContexts>>

\* a caller of the hook gives its sendMessage a query for socket s (or null),
\* whatever the state of the socket
SendMessage(s) ==
    /\ Len(widget.submitted) < MaxSubmits
    /\ LET n == Len(widget.submitted) + 1
           state == IF s = NoSocket THEN "NONE"
                                    ELSE widget.sockets[s].readyState
           w == [widget EXCEPT !.submitted =
                    Append(@, [socket |-> s, readyState |-> state])]
           message == [query |-> n, sessionId |-> widget.sessionId,
                       phase |-> "handed", session |-> NoSessionId]
       IN  widget' = sendMessage(w, s, message)
    /\ UNCHANGED <<storeVars, apiResult, gatewayVars, userContexts>>

\* handleSend, for an input that is not blank: if (!input.trim() || isTyping)
\* return; the query goes to sendMessage with the sessionId state, or to a
\* toast when wsRef holds no socket; setMessages and setInput cause a render.
\* The input is rendered while the widget is open.
handleSend ==
    /\ widget.isOpen
    /\ Len(widget.submitted) < MaxSubmits
    /\ ~widget.isTyping
    /\ LET n == Len(widget.submitted) + 1
           state == IF widget.wsRef = NoSocket
                    THEN "NONE"
                    ELSE widget.sockets[widget.wsRef].readyState
           w == [widget EXCEPT !.submitted =
                    Append(@, [socket |-> widget.wsRef,
                               readyState |-> state])]
           message == [query |-> n, sessionId |-> widget.sessionId,
                       phase |-> "handed", session |-> NoSessionId]
       IN  widget' = Render(IF widget.wsRef # NoSocket
                            THEN sendMessage(w, widget.wsRef, message)
                            ELSE w,
                            widget.isOpen)
    /\ Len(widget'.sockets) <= MaxSockets
    /\ UNCHANGED <<storeVars, apiResult, gatewayVars, userContexts>>

\* The server takes chat_query i of the connection: it sends the typing
\* envelope, and uses the session of the sessionId or, for none, creates one.
\* The client's onmessage: data.type === 'typing', setIsTyping(true).
ReceiveTyping(s, i) ==
    /\ widget.sockets[s].readyState = "OPEN"
    /\ widget.sockets[s].transmitted[i].phase = "sent"
    /\ LET message == widget.sockets[s].transmitted[i]
           created == message.sessionId = NoSessionId
           session == IF created THEN widget.serverSessions + 1
                                 ELSE message.sessionId
           w == [widget EXCEPT
                    !.sockets[s].transmitted[i].phase = "typing",
                    !.sockets[s].transmitted[i].session = session,
                    !.serverSessions = IF created THEN @ + 1 ELSE @,
                    !.isTyping = TRUE]
       IN  widget' = IF widget.isTyping THEN w ELSE Render(w, w.isOpen)
    /\ Len(widget'.sockets) <= MaxSockets
    /\ UNCHANGED <<storeVars, apiResult, gatewayVars, userContexts>>

\* onmessage, data.type === 'complete': setIsTyping(false),
\* setSessionId(prev => prev || data.sessionId), setMessages
ReceiveComplete(s, i) ==
    /\ widget.sockets[s].readyState = "OPEN"
    /\ widget.sockets[s].transmitted[i].phase = "typing"
    /\ LET data == widget.sockets[s].transmitted[i]
           w == [widget EXCEPT
                    !.sockets[s].transmitted[i].phase = "complete",
                    !.isTyping = FALSE,
                    !.sessionId = IF @ # NoSessionId THEN @ ELSE data.session]
       IN  widget' = Render(w, w.isOpen)
    /\ Len(widget'.sockets) <= MaxSockets
    /\ UNCHANGED <<storeVars, apiResult, gatewayVars, userContexts>>

\* onmessage, data.type === 'error' (the catch of the server's handler):
\* setIsTyping(false), toast
ReceiveError(s, i) ==
    /\ widget.sockets[s].readyState = "OPEN"
    /\ widget.sockets[s].transmitted[i].phase = "typing"
    /\ LET w == [widget EXCEPT
                    !.sockets[s].transmitted[i].phase = "error",
                    !.isTyping = FALSE]
       IN  widget' = Render(w, w.isOpen)
    /\ Len(widget'.sockets) <= MaxSockets
    /\ UNCHANGED <<storeVars, apiResult, gatewayVars, userContexts>>

----------------------------------------------------------------------------
Init ==
    /\ chatSessions = <<>>
    /\ chatMessages = <<>>
    /\ uuids = 0
    /\ now = 0
    /\ apiResult = NoResult
    /\ req = <<>>
    /\ readyState = <<>>
    /\ sent = <<>>
    /\ widget = NewWidget
    /\ userContexts = <<>>

\* the widget in the browser: the user, the renders, the sockets and the timers
NextClient ==
    \/ \E isOpen \in BOOLEAN : SetIsOpen(isOpen)
    \/ Rerender
    \/ \E s \in 1..Len(widget.sockets) : SocketOpens(s)
    \/ \E s \in 1..Len(widget.sockets) : SocketLost(s)
    \/ \E s \in 1..Len(widget.sockets) : SocketClosed(s)
    \/ \E t \in 1..Len(widget.timers) : TimerFires(t)

SpecClient == Init /\ [][NextClient]_vars

\* the widget with its user's queries and the server's answers to them
NextWidget ==
    \/ \E isOpen \in BOOLEAN : SetIsOpen(isOpen)
    \/ Rerender
    \/ \E s \in 1..Len(widget.sockets) : SocketOpens(s)
    \/ \E s \in 1..Len(widget.sockets) : SocketLost(s)
    \/ \E s \in 1..Len(widget.sockets) : SocketClosed(s)
    \/ \E t \in 1..Len(widget.timers) : TimerFires(t)
    \/ handleSend
    \/ \E s \in 1..Len(widget.sockets) :
          \E i \in 1..Len(widget.sockets[s].transmitted) : ReceiveTyping(s, i)
    \/ \E s \in 1..Len(widget.sockets) :
          \E i \in 1..Len(widget.sockets[s].transmitted) : ReceiveComplete(s, i)
    \/ \E s \in 1..Len(widget.sockets) :
          \E i \in 1..Len(widget.sockets[s].transmitted) : ReceiveError(s, i)

SpecWidget == Init /\ [][NextWidget]_vars

\* the sockets of the widget and a caller of sendMessage
NextSend ==
    \/ \E isOpen \in BOOLEAN : SetIsOpen(isOpen)
    \/ Rerender
    \/ \E s \in 1..Len(widget.sockets) : SocketOpens(s)
    \/ \E s \in 1..Len(widget.sockets) : SocketLost(s)
    \/ \E s \in 1..Len(widget.sockets) : SocketClosed(s)
    \/ \E t \in 1..Len(widget.timers) : TimerFires(t)
    \/ \E s \in 0..Len(widget.sockets) : SendMessage(s)

SpecSend == Init /\ [][NextSend]_vars

NextStore ==
    \/ \E u \in UserIds : StoreCreateChatSession(u)
    \/ \E sid \in SessionArgs, role \in Roles, content \in Contents :
          StoreCreateChatMessage(sid, role, content)
    \/ \E sid \in SessionArgs : StoreGetMessagesBySessionId(sid)

SpecStore == Init /\ [][NextStore]_vars

\* the read endpoints, over a store that direct calls fill while they run
NextRead ==
    \/ /\ apiResult.call < MaxPopulate
       /\ \E u \in UserIds : StoreCreateChatSession(u)
    \/ /\ apiResult.call < MaxPopulate
       /\ \E sid \in SessionArgs, role \in Roles, content \in Contents :
             StoreCreateChatMessage(sid, role, content)
    \/ \E authHeader \in Tokens, sid \in SessionArgs : RestGetSession(authHeader, sid)
    \/ \E r \in 1..Len(req) : RestGetMessages(r)
    \/ \E r \in 1..Len(req) : RestGetRespond(r)
    \/ \E authHeader \in Tokens : RestListSessions(authHeader)
    \/ \E r \in 1..Len(req) : RestListRespond(r)

SpecRead == Init /\ [][NextRead]_vars

\* direct calls of the user-context methods
NextUsers ==
    \/ \E insertContext \in InsertUserContexts : StoreCreateUserContext(insertContext)
    \/ \E userId \in UserIds, updates \in UserContextUpdates :
          StoreUpdateUserContext(userId, updates)

SpecUsers == Init /\ [][NextUsers]_vars

\* enrichContext and detectIntent, called on every input
InitService ==
    /\ chatSessions = <<>>
    /\ chatMessages = <<>>
    /\ uuids = 0
    /\ now = 0
    /\ apiResult \in ServiceInputs
    /\ req = <<>>
    /\ readyState = <<>>
    /\ sent = <<>>
    /\ widget = NewWidget
    /\ userContexts = <<>>

NextService ==
    \/ ServiceEnrichContext
    \/ ServiceDetectIntent

SpecService == InitService /\ [][NextService]_vars

Next ==
    \/ \E u \in UserIds \ {MockPayload.sub} : SeedSession(u)
    \/ \E in \in ChatInputs : RestChat(in[1], in[2], in[3])
    \/ \E r \in 1..Len(req) : RestSaveUser(r)
    \/ \E r \in 1..Len(req) : RestCallLlm(r)
    \/ \E r \in 1..Len(req), llmResponse \in LlmResponses :
          RestLlmReturns(r, llmResponse)
    \/ \E r \in 1..Len(req) : RestLlmThrows(r)
    \/ \E r \in 1..Len(req) : RestRespond(r)
    \/ OpenConnection
    \/ \E c \in 1..Len(readyState) : CloseConnection(c)
    \/ \E c \in 1..Len(readyState), in \in ChatInputs :
          WsChatQuery(c, in[1], in[2], in[3])
    \/ \E r \in 1..Len(req) : WsCreateSession(r)
    \/ \E r \in 1..Len(req) : WsSaveUser(r)
    \/ \E r \in 1..Len(req) : WsCallLlm(r)
    \/ \E r \in 1..Len(req), llmResponse \in LlmResponses :
          WsLlmReturns(r, llmResponse)
    \/ \E r \in 1..Len(req) : WsLlmThrows(r)
    \/ \E r \in 1..Len(req) : WsToken(r)
    \/ \E r \in 1..Len(req) : WsSaveAssistant(r)
    \/ \E r \in 1..Len(req) : WsComplete(r)

Spec == Init /\ [][Next]_vars

\* The gateway with well-formed requests only, and the event loop's promise
\* that a continuation whose await has resolved is run.  callMcpLlm is given
\* no such promise: nothing in the handlers bounds the time it takes.
LiveInputs == {<<Bearer \o <<"t">>, sid, "why">> : sid \in {NoSessionId, UnknownSessionId}}

NextLive ==
    \/ \E in \in LiveInputs : RestChat(in[1], in[2], in[3])
    \/ OpenConnection
    \/ \E c \in 1..Len(readyState) : CloseConnection(c)
    \/ \E c \in 1..Len(readyState), in \in LiveInputs :
          WsChatQuery(c, in[1], in[2], in[3])
    \/ \E r \in 1..MaxRequests : PipelineStep(r)
    \/ \E r \in 1..MaxRequests : GeneratorSettles(r)

SpecLive ==
    /\ Init
    /\ [][NextLive]_vars
    /\ \A r \in 1..MaxRequests : WF_vars(PipelineStep(r))

----------------------------------------------------------------------------
(* What the claims speak of *)

\* the messages stored with a session id, in the order they were stored
MessagesOf(sid) == SelectSeq(chatMessages, LAMBDA m : m.sessionId = sid)

\* the envelopes a chat_query's handler put on its connection
EnvelopesOf(r) == SelectSeq(sent[req[r].conn], LAMBDA e : e.req = r)

Authenticated(r) == verifyToken(req[r].token) # NoPrincipal

IsPrefix(s, t) == Len(s) <= Len(t) /\ s = SubSeq(t, 1, Len(s))

StoredUnder(id) == {i \in 1..Len(chatMessages) : chatMessages[i].id = id}

\* typing, every fragment of the text in generation order, complete
FullStream(r) ==
    <<Envelope("typing", r, req[r].sessionId, <<>>, "", 0)>>
    \o [i \in 1..Len(streamResponse(req[r].text)) |->
           Envelope("token", r, req[r].session, streamResponse(req[r].text)[i], "", 0)]
    \o <<Complete(r, req[r].session, req[r].messageId, req[r].prompts,
                  Metadata(req[r].text))>>

\* the texts of the token envelopes a chat_query's handler sent, in order
TokenTexts(r) ==
    LET tokens == SelectSeq(EnvelopesOf(r), LAMBDA e : e.type = "token")
    IN  [i \in 1..Len(tokens) |-> tokens[i].text]

RECURSIVE Concat(_)
Concat(texts) ==
    IF texts = <<>> THEN <<>>
    ELSE Concat(SubSeq(texts, 1, Len(texts) - 1)) \o Last(texts)

\* a chat_query whose handler ran to its end, generation having succeeded, on
\* a connection that is still open
Streamed(r) ==
    /\ req[r].kind = "ws"
    /\ Authenticated(r)
    /\ req[r].pc = "done"
    /\ ~req[r].failed
    /\ readyState[req[r].conn] = "OPEN"

\* one or more non-empty words separated by single spaces
SingleSpacedWords(text) ==
    /\ text # <<>>
    /\ text[1] # " "
    /\ Last(text) # " "
    /\ \A i \in 1..(Len(text) - 1) : ~(text[i] = " " /\ text[i + 1] = " ")

Spaces(text) == Cardinality({i \in 1..Len(text) : text[i] = " "})

----------------------------------------------------------------------------
\* C1: in every reachable state every session's messageCount is the number of
\* messages stored with its id, whatever the interleaving of the REST and the
\* streaming pipelines that append to it.
C1_MessageCountMatches ==
    \A sid \in DOMAIN chatSessions :
        chatSessions[sid].messageCount = Len(MessagesOf(sid))

\* a REST and a streaming pipeline have appended to one session, the appends
\* of the second falling between those of the first
C1_Witness ==
    \E r1, r2 \in 1..Len(req) :
        /\ req[r1].kind = "rest" /\ req[r2].kind = "ws"
        /\ req[r1].session = req[r2].session
        /\ Len(req[r1].saved) = 2 /\ Len(req[r2].saved) = 2
        /\ req[r1].saved[1] < req[r2].saved[1]
        /\ req[r2].saved[2] < req[r1].saved[2]
        /\ chatSessions[req[r1].session].messageCount = 4

\* C2: on both ingress paths a query whose sessionId names a session owned by
\* another principal persists no message.
C2_ForeignSessionNeverWritten ==
    \A r \in 1..Len(req) :
        (/\ Authenticated(r)
         /\ req[r].sessionId \in DOMAIN chatSessions
         /\ chatSessions[req[r].sessionId].userId # verifyToken(req[r].token).sub)
        => req[r].saved = <<>>

\* C3: on both ingress paths an empty or over-long query creates no session
\* and persists no message.
C3_InvalidQueryChangesNothing ==
    \A r \in 1..Len(req) :
        (Authenticated(r) /\ ~ValidQuery(req[r].query))
        => (req[r].saved = <<>> /\ req[r].created = NoSessionId)

\* C4: when verifyToken returns no principal the REST path answers 401, the
\* streaming path emits exactly one error envelope with code UNAUTHORIZED, and
\* the handler stops there: no typing envelope, no session, no message, no
\* call of the generator.
C4_UnauthorizedStopsPipeline ==
    \A r \in 1..Len(req) :
        ~Authenticated(r) =>
            /\ req[r].pc = "done"
            /\ req[r].saved = <<>>
            /\ req[r].created = NoSessionId
            /\ req[r].llmCalls = 0
            /\ req[r].kind = "rest" => req[r].status = 401
            /\ req[r].kind = "ws" =>
                  EnvelopesOf(r) =
                      <<Envelope("error", r, NoSessionId, <<>>, "UNAUTHORIZED", 0)>>

\* both paths have turned a request without a principal away
C4_Witness ==
    \E r1, r2 \in 1..Len(req) :
        /\ ~Authenticated(r1) /\ req[r1].kind = "rest" /\ req[r1].status = 401
        /\ ~Authenticated(r2) /\ req[r2].kind = "ws"
        /\ Len(EnvelopesOf(r2)) = 1

\* C5: for a chat_query accepted on a connection that stays open, the typing,
\* token and complete envelopes of that query are at any time a prefix of
\* typing, the fragments in generation order, complete (so no token follows
\* complete and typing comes first); and they are all of them, with nothing
\* else, once a handler whose generation succeeded has ended.
C5_EnvelopeOrder ==
    \A r \in 1..Len(req) :
        (/\ req[r].kind = "ws"
         /\ Authenticated(r)
         /\ readyState[req[r].conn] = "OPEN")
        => /\ EnvelopesOf(r) # <<>>
           /\ EnvelopesOf(r)[1].type = "typing"
           /\ IsPrefix(SelectSeq(EnvelopesOf(r), LAMBDA e : e.type # "error"),
                       FullStream(r))
           /\ (req[r].pc = "done" /\ ~req[r].failed)
                  => EnvelopesOf(r) = FullStream(r)

\* a query's stream is complete on an open connection that also carried the
\* envelopes of another query
C5_Witness ==
    \E r \in 1..Len(req) :
        /\ req[r].kind = "ws" /\ req[r].pc = "done" /\ ~req[r].failed
        /\ Authenticated(r)
        /\ readyState[req[r].conn] = "OPEN"
        /\ Len(EnvelopesOf(r)) = 4
        /\ Len(sent[req[r].conn]) > 5

\* C6: on both ingress paths a query with a sessionId that is not in the store
\* creates no session and persists no message.
C6_UnknownSessionAborts ==
    \A r \in 1..Len(req) :
        (/\ Authenticated(r)
         /\ req[r].sessionId # NoSessionId
         /\ req[r].sessionId \notin DOMAIN chatSessions)
        => (req[r].saved = <<>> /\ req[r].created = NoSessionId)

\* C7: when callMcpLlm fails the REST caller gets 500 and the streaming caller
\* an INTERNAL_ERROR envelope after typing; the handler has persisted exactly
\* one message, the user's, no assistant message, and the session's
\* messageCount is the number of its stored messages.
C7_GeneratorFailure ==
    \A r \in 1..Len(req) :
        req[r].failed =>
            /\ req[r].pc = "done"
            /\ req[r].messageId = 0
            /\ Len(req[r].saved) = 1
            /\ \E i \in 1..Len(chatMessages) :
                  /\ chatMessages[i].id = req[r].saved[1]
                  /\ chatMessages[i].role = "user"
                  /\ chatMessages[i].content = req[r].query
                  /\ chatMessages[i].sessionId = req[r].session
            /\ chatSessions[req[r].session].messageCount
                  = Len(MessagesOf(req[r].session))
            /\ req[r].kind = "rest" => req[r].status = 500
            /\ (req[r].kind = "ws" /\ readyState[req[r].conn] = "OPEN") =>
                  EnvelopesOf(r) =
                      <<Envelope("typing", r, req[r].sessionId, <<>>, "", 0),
                        Envelope("error", r, NoSessionId, <<>>, "INTERNAL_ERROR", 0)>>

\* the generator has failed a REST request and a chat_query on an open connection
C7_Witness ==
    \E r1, r2 \in 1..Len(req) :
        /\ req[r1].failed /\ req[r1].kind = "rest"
        /\ req[r2].failed /\ req[r2].kind = "ws"
        /\ readyState[req[r2].conn] = "OPEN"

C9_DistinctTimestamps ==
    \A i, j \in 1..Len(chatMessages) :
        (i < j /\ chatMessages[i].sessionId = chatMessages[j].sessionId)
        => chatMessages[i].timestamp # chatMessages[j].timestamp

\* C10: createChatMessage with a session id that is not in the store signals
\* NotFound and stores nothing.
C10_MissingSessionNotFound ==
    (apiResult.op = "createChatMessage" /\ ~apiResult.known)
        => /\ apiResult.status = "NotFound"
           /\ StoredUnder(apiResult.value[1]) = {}

\* C11: the texts of the token envelopes of a query, concatenated in the
\* order they were sent, are the generated text.
C11_TokensConcatToText ==
    \A r \in 1..Len(req) :
        Streamed(r) => Concat(TokenTexts(r)) = Chars(req[r].text)

\* C12: streaming a text of n >= 1 non-empty words separated by single spaces
\* sends exactly n token envelopes, the i-th carrying the i-th word followed
\* by one space, and after them exactly one complete envelope.
C12_OneTokenPerWord ==
    \A r \in 1..Len(req) :
        (Streamed(r) /\ SingleSpacedWords(Chars(req[r].text))) =>
            LET tokens == TokenTexts(r)
                envelopes == EnvelopesOf(r)
            IN  /\ Len(tokens) = Spaces(Chars(req[r].text)) + 1
                /\ \A i \in 1..Len(tokens) :
                      /\ Len(tokens[i]) >= 2
                      /\ Last(tokens[i]) = " "
                      /\ Spaces(tokens[i]) = 1
                /\ Concat(tokens) = Append(Chars(req[r].text), " ")
                /\ Len(envelopes) = Len(tokens) + 2
                /\ \A i \in 1..Len(envelopes) :
                      envelopes[i].type = "complete" <=> i = Len(envelopes)
                /\ \A i \in 1..Len(tokens) : envelopes[i + 1].type = "token"

\* "hi yo" was streamed as "hi " and "yo " and completed
C12_Witness ==
    \E r \in 1..Len(req) :
        /\ Streamed(r)
        /\ req[r].text = "hi yo"
        /\ TokenTexts(r) = <<<<"h", "i", " ">>, <<"y", "o", " ">>>>
        /\ Last(EnvelopesOf(r)).type = "complete"

\* C13: whenever a complete envelope was sent, the messageId it carries is the
\* id of a stored assistant message of the envelope's session, whose content is
\* the text that was streamed, and the envelope's suggested prompts and
\* metadata are those of that message.
C13_CompleteNamesStoredMessage ==
    \A c \in 1..Len(sent) : \A k \in 1..Len(sent[c]) :
        sent[c][k].type = "complete" =>
            \E i \in 1..Len(chatMessages) :
                /\ chatMessages[i].id = sent[c][k].messageId
                /\ chatMessages[i].role = "assistant"
                /\ chatMessages[i].sessionId = sent[c][k].sessionId
                /\ chatMessages[i].content = req[sent[c][k].req].text
                /\ chatMessages[i].suggestedPrompts = sent[c][k].suggestedPrompts
                /\ chatMessages[i].metadata = sent[c][k].metadata

\* a complete envelope was sent, with prompts and metadata
C13_Witness ==
    \E c \in 1..Len(sent) : \E k \in 1..Len(sent[c]) :
        /\ sent[c][k].type = "complete"
        /\ sent[c][k].suggestedPrompts # <<>>
        /\ sent[c][k].metadata.tokensUsed = 1
        /\ sent[c][k].messageId > 0

\* the query's handler sent an error envelope
Errored(r) == \E i \in 1..Len(EnvelopesOf(r)) : EnvelopesOf(r)[i].type = "error"

\* C14: an error envelope is the last envelope of its query (no token or
\* complete of that query follows it); sending it leaves the connection open;
\* and a chat_query accepted later on the same connection runs the whole
\* pipeline: both messages persisted and typing, the tokens, complete sent.
C14_ErrorEndsQueryOnly ==
    /\ [](\A r \in 1..Len(req) :
            req[r].kind = "ws" =>
                \A i \in 1..Len(EnvelopesOf(r)) :
                    EnvelopesOf(r)[i].type = "error" => i = Len(EnvelopesOf(r)))
    /\ [][\A c \in 1..Len(readyState) :
            (Len(sent'[c]) > Len(sent[c]) /\ Last(sent'[c]).type = "error")
                => readyState'[c] = "OPEN"]_vars
    /\ [](\A r1, r2 \in 1..Len(req) :
            (/\ r1 < r2
             /\ req[r1].kind = "ws"
             /\ req[r1].conn = req[r2].conn
             /\ Errored(r1)
             /\ Streamed(r2))
            => /\ EnvelopesOf(r2) = FullStream(r2)
               /\ Len(req[r2].saved) = 2)

\* a query ended with an error envelope and a later query on the same
\* connection was streamed to its complete envelope
C14_Witness ==
    \E r1, r2 \in 1..Len(req) :
        /\ r1 < r2
        /\ req[r1].kind = "ws" /\ req[r1].failed /\ Errored(r1)
        /\ req[r1].conn = req[r2].conn
        /\ Streamed(r2)
        /\ Last(sent[req[r2].conn]).type = "complete"
        /\ Last(sent[req[r2].conn]).req = r2

\* C15: once a connection has closed no envelope is delivered on it any more,
\* so a query that was streaming on it gets no further token and no complete;
\* and no stored message is retracted, so the query's user message stays.
C15_CloseStopsDelivery ==
    /\ [][\A c \in 1..Len(readyState) :
            readyState[c] = "CLOSED" => sent'[c] = sent[c]]_vars
    /\ [][IsPrefix(chatMessages, chatMessages')]_vars
    /\ [](\A r \in 1..Len(req) : \A k \in 1..Len(req[r].saved) :
            StoredUnder(req[r].saved[k]) # {})

\* a connection closed after the first token of a query; the handler ran to
\* its end, the query's messages are stored, and nothing more was delivered
C15_Witness ==
    \E r \in 1..Len(req) :
        /\ req[r].kind = "ws" /\ req[r].pc = "done" /\ ~req[r].failed
        /\ readyState[req[r].conn] = "CLOSED"
        /\ Len(EnvelopesOf(r)) = 2
        /\ Last(EnvelopesOf(r)).type = "token"
        /\ Len(req[r].saved) = 2
        /\ MessageById(req[r].saved[1]).role = "user"

\* C16: every envelope a connection was given belongs to a chat_query that was
\* received on that connection, so no token or complete of a query that was in
\* flight on a connection that closed is delivered on a connection opened later.
C16_NoResidualEnvelopes ==
    \A c \in 1..Len(sent) : \A k \in 1..Len(sent[c]) :
        req[sent[c][k].req].conn = c

\* a connection closed after the first token of a query whose handler ran on
\* to its end; a connection opened later carried a whole stream of its own
C16_Witness ==
    \E r1, r2 \in 1..Len(req) :
        /\ req[r1].kind = "ws" /\ req[r1].pc = "done" /\ ~req[r1].failed
        /\ readyState[req[r1].conn] = "CLOSED"
        /\ Len(EnvelopesOf(r1)) = 2
        /\ req[r2].conn > req[r1].conn
        /\ Streamed(r2)
        /\ sent[req[r2].conn] = FullStream(r2)

\* the sessions a principal owns
OwnedBy(sub) == {sid \in DOMAIN chatSessions : chatSessions[sid].userId = sub}

\* C18: GET /sessions/:id answers 404 when the session does not exist, 403
\* when another principal owns it, and 200 with messages of that session when
\* the caller owns it; every message in a response body belongs to a session
\* the caller owns.
C18_SessionReadAccess ==
    \A r \in 1..Len(req) :
        (req[r].kind = "get" /\ Authenticated(r)) =>
            LET sub == verifyToken(req[r].token).sub
                id == req[r].sessionId
            IN  /\ \A k \in 1..Len(req[r].body) :
                      req[r].body[k].sessionId \in OwnedBy(sub)
                /\ req[r].pc = "done" =>
                      /\ id \notin DOMAIN chatSessions =>
                            req[r].status = 404 /\ req[r].body = <<>>
                      /\ id \in DOMAIN chatSessions \ OwnedBy(sub) =>
                            req[r].status = 403 /\ req[r].body = <<>>
                      /\ id \in OwnedBy(sub) =>
                            /\ req[r].status = 200
                            /\ IsPrefix(req[r].body, MessagesOf(id))

\* the owner has read a session with messages while the store also holds a
\* message of a session of another principal
C18_Witness ==
    \E r \in 1..Len(req) :
        /\ req[r].kind = "get" /\ req[r].pc = "done" /\ req[r].status = 200
        /\ Len(req[r].body) >= 1
        /\ \E i \in 1..Len(chatMessages) :
              /\ chatMessages[i].sessionId \in DOMAIN chatSessions
              /\ chatSessions[chatMessages[i].sessionId].userId # MockPayload.sub

\* C19: GET /sessions reads exactly the sessions whose owner is the caller,
\* every one of them and no session of another owner, and answers 200 with
\* what it read.
C19_ListsOwnedSessions ==
    /\ [][\A r \in 1..Len(req') :
            (/\ r > Len(req)
             /\ req'[r].kind = "list"
             /\ verifyToken(req'[r].token) # NoPrincipal)
            => /\ {req'[r].sessions[k] : k \in 1..Len(req'[r].sessions)}
                     = OwnedBy(verifyToken(req'[r].token).sub)
               /\ Len(req'[r].sessions)
                     = Cardinality(OwnedBy(verifyToken(req'[r].token).sub))]_vars
    /\ [](\A r \in 1..Len(req) :
            (req[r].kind = "list" /\ Authenticated(r) /\ req[r].pc = "done") =>
                /\ req[r].status = 200
                /\ req[r].body = req[r].sessions
                /\ \A k \in 1..Len(req[r].body) :
                      req[r].body[k] \in OwnedBy(verifyToken(req[r].token).sub))

\* the caller's two sessions were listed while the store held a session of
\* another principal
C19_Witness ==
    \E r \in 1..Len(req) :
        /\ req[r].kind = "list" /\ req[r].pc = "done" /\ req[r].status = 200
        /\ Len(req[r].body) = 2
        /\ \E sid \in DOMAIN chatSessions : sid < req[r].body[2]
              /\ chatSessions[sid].userId # MockPayload.sub

\* the most recent HistoryWindow messages of a session, all of them when there
\* are fewer, as role and content pairs, oldest first
LastMessages(sid) ==
    LET msgs == MessagesOf(sid)
        n == Min(Len(msgs), HistoryWindow)
    IN  [i \in 1..n |-> [role |-> msgs[Len(msgs) - n + i].role,
                         content |-> msgs[Len(msgs) - n + i].content]]

\* C20: on both ingress paths, the history handed to callMcpLlm is the most
\* recent 10 messages of the session at the time of the call (all of them when
\* there are fewer), as role and content pairs, oldest first.
C20_HistoryIsRecentMessages ==
    [][\A r \in 1..Len(req) :
          req'[r].llmCalls > req[r].llmCalls
              => req'[r].history = LastMessages(req[r].session)]_vars

\* C17: a socket that is lost (closed by the server, or failed while
\* connecting) while the widget is open schedules exactly one reconnection
\* timer in its close handler and creates no socket there; a timer fires once
\* and creates at most one socket; a socket is only ever created, one at a
\* time, when the widget's reference holds none (or, by the connection effect,
\* when its cleanup has just closed the socket the reference held).  So no
\* loss goes without an attempt and none yields two new connections, a failed
\* attempt included.
C17_OneReconnectPerClose ==
    /\ [][\A s \in 1..Len(widget.sockets) :
            (/\ widget.isOpen
             /\ widget.sockets[s].readyState \in {"CONNECTING", "OPEN"}
             /\ widget'.sockets[s].readyState = "CLOSED")
            => /\ Len(widget'.timers) = Len(widget.timers) + 1
               /\ Last(widget'.timers).socket = s
               /\ ~Last(widget'.timers).fired
               /\ Len(widget'.sockets) = Len(widget.sockets)]_vars
    /\ [][Len(widget'.sockets) > Len(widget.sockets)
            => /\ Len(widget'.sockets) = Len(widget.sockets) + 1
               /\ widget'.wsRef = Len(widget'.sockets)
               /\ \/ widget.wsRef = NoSocket
                  \/ /\ Last(widget'.sockets).timer = 0
                     /\ widget'.sockets[widget.wsRef].readyState = "CLOSING"]_vars
    /\ [][\A t \in 1..Len(widget.timers) :
            widget.timers[t].fired => widget'.timers[t].fired]_vars
    /\ [](/\ \A t \in 1..Len(widget.timers) :
              Cardinality({s \in 1..Len(widget.sockets) :
                              widget.sockets[s].timer = t}) <= 1
          /\ \A s \in 1..Len(widget.sockets) :
              Cardinality({t \in 1..Len(widget.timers) :
                              widget.timers[t].socket = s}) <= 1)

\* the widget is open; its first socket was lost, the timer of that loss made
\* a second socket, which failed before it opened, and the timer of that
\* failure made the third, which is open
C17_Witness ==
    /\ widget.isOpen
    /\ Len(widget.sockets) = 3
    /\ Len(widget.timers) = 2
    /\ widget.timers[1].socket = 1 /\ widget.timers[1].fired
    /\ widget.sockets[2].timer = 1
    /\ widget.sockets[2].readyState = "CLOSED"
    /\ widget.timers[2].socket = 2 /\ widget.timers[2].fired
    /\ widget.sockets[3].timer = 2
    /\ widget.sockets[3].readyState = "OPEN"
    /\ widget.wsRef = 3

----------------------------------------------------------------------------
(* enrichContext and detectIntent *)

\* C21: the userRole of the enriched context is the principal's role for
\* every client context, with or without a userRole of its own.
C21_RoleIsThePrincipals ==
    apiResult.op = "enrichContext" =>
        /\ "userRole" \in DOMAIN apiResult.value
        /\ apiResult.value["userRole"] = apiResult.userRole

\* the client sent another role than the principal's
C21_Witness ==
    /\ apiResult.op = "enrichContext"
    /\ "userRole" \in DOMAIN apiResult.context
    /\ apiResult.context["userRole"] # apiResult.userRole
    /\ apiResult.value["userRole"] = apiResult.userRole

\* C22: enrichContext leaves every field other than userRole as the client
\* gave it, adds no other field, leaves the object it was given as it was,
\* and changes no session, message or user context.
C22_OtherFieldsPassThrough ==
    [][apiResult'.op = "enrichContext" =>
          /\ DOMAIN apiResult'.value \ {"userRole"}
                = DOMAIN apiResult'.context \ {"userRole"}
          /\ \A f \in DOMAIN apiResult'.context \ {"userRole"} :
                apiResult'.value[f] = apiResult'.context[f]
          /\ apiResult'.context = apiResult.context
          /\ UNCHANGED <<chatSessions, chatMessages, userContexts>>]_vars

\* all six other fields were given, and a userRole that was replaced
C22_Witness ==
    /\ apiResult.op = "enrichContext"
    /\ DOMAIN apiResult.context = ClientFields \cup {"userRole"}
    /\ apiResult.context["userRole"] # apiResult.value["userRole"]
    /\ \A f \in ClientFields : apiResult.value[f] = ClientValue(f)

\* the classification rules: the intents in their order, each with its keywords
IntentRules ==
    <<[intent |-> "explain", keywords |-> {"why", "explain", "what is"}],
      [intent |-> "summarize", keywords |-> {"summarize", "summary", "overview"}],
      [intent |-> "navigate", keywords |-> {"how do i", "where", "navigate"}],
      [intent |-> "guide", keywords |-> {"help", "guide", "tutorial"}],
      [intent |-> "validate", keywords |-> {"validate", "check", "verify"}]>>

SameLetter(a, b) ==
    a = b \/ \E k \in DOMAIN UpperCase : {a, b} = {UpperCase[k], LowerCase[k]}

\* keyword occurs in query, letter case ignored
OccursIn(keyword, query) ==
    \E i \in 0..(Len(query) - Len(keyword)) :
        \A j \in 1..Len(keyword) : SameLetter(query[i + j], keyword[j])

MatchingRules(query) ==
    {r \in DOMAIN IntentRules :
        \E k \in IntentRules[r].keywords : OccursIn(Chars(k), query)}

FirstRuleIntent(query) ==
    IF MatchingRules(query) = {} THEN "guide"
    ELSE IntentRules[CHOOSE r \in MatchingRules(query) :
                        \A o \in MatchingRules(query) : r <= o].intent

\* C23: detectIntent returns the intent of the first rule, in the order
\* explain, summarize, navigate, guide, validate, one of whose keywords occurs
\* in the query with letter case ignored, and guide when no rule matches; a
\* query with both "help" and "why" yields explain; the intent is a function
\* of the query alone.
C23_FirstMatchingRule ==
    apiResult.op = "detectIntent" =>
        /\ apiResult.value = FirstRuleIntent(Join(apiResult.query))
        /\ (OccursIn(Chars("help"), Join(apiResult.query))
              /\ OccursIn(Chars("why"), Join(apiResult.query))
            => apiResult.value = "explain")

\* "HELP Why": the guide rule matches and the explain rule wins
C23_Witness ==
    /\ apiResult.op = "detectIntent"
    /\ apiResult.query = <<"HELP", " ", "Why">>
    /\ apiResult.value = "explain"

----------------------------------------------------------------------------
(* Session activity *)

C28_ActivityIsMessageTimestamp ==
    apiResult.op = "createChatMessage" /\ apiResult.known =>
        /\ chatSessions[apiResult.sessionId].lastActivity
              = MessageById(apiResult.value[1]).timestamp
        /\ chatSessions[apiResult.sessionId].messageCount
              = Len(MessagesOf(apiResult.sessionId))

----------------------------------------------------------------------------
(* User contexts *)

\* the fields of a stored UserContext the caller's updates may not replace
KeptFields == {"id", "createdAt", "updatedAt"}

\* C27: there is at most one UserContext per user id and none is ever
\* removed; updateUserContext for a user id without a record fails and leaves
\* the user contexts as they were; for an existing record it replaces the
\* given fields and moves updatedAt on, and keeps the record's id and
\* createdAt.
C27_UserContextsUpdatedInPlace ==
    /\ [](\A u, v \in DOMAIN userContexts :
            userContexts[u].userId = userContexts[v].userId => u = v)
    /\ [][/\ DOMAIN userContexts \subseteq DOMAIN userContexts'
          /\ apiResult'.op = "updateUserContext" /\ apiResult'.call # apiResult.call =>
                IF apiResult'.userId \notin DOMAIN userContexts
                THEN /\ apiResult'.status = "error"
                     /\ userContexts' = userContexts
                ELSE LET old == userContexts[apiResult'.userId]
                         new == userContexts'[apiResult'.userId]
                     IN  /\ apiResult'.status = "ok"
                         /\ new.id = old.id
                         /\ new.createdAt = old.createdAt
                         /\ new.updatedAt >= old.updatedAt
                         /\ \A f \in DOMAIN apiResult'.updates \ KeptFields :
                               new[f] = apiResult'.updates[f]
                         /\ \A f \in DOMAIN old \ (DOMAIN apiResult'.updates
                                                    \cup KeptFields) :
                               new[f] = old[f]]_vars

----------------------------------------------------------------------------
(* Units of work side by side *)

\* unit r ended with its final response: 200 with the assistant message, or
\* the assistant message saved and the complete envelope passed to ws.send
Succeeded(r) ==
    /\ req[r].pc = "done"
    /\ ~req[r].failed
    /\ req[r].messageId # 0
    /\ req[r].kind = "rest" => req[r].status = 200

\* C25: while a unit of work is suspended in the generator call, every unit
\* of work for another session can take its next step, whatever that step is,
\* and a new request can be accepted: a generator call that does not return
\* keeps no query on another session from running from acceptance to its
\* final response.
C25_WaitingBlocksNoOtherSession ==
    \A a \in DOMAIN req :
        Waiting(a) =>
            /\ \A b \in DOMAIN req \ {a} :
                  req[b].pc # "done" /\ req[b].session # req[a].session =>
                      IF Waiting(b) THEN ENABLED GeneratorSettles(b)
                      ELSE ENABLED PipelineStep(b)
            /\ Len(req) < MaxRequests =>
                  ENABLED RestChat(Bearer \o <<"t">>, NoSessionId, "why")

\* a unit is still suspended in the generator call, and a unit accepted after
\* it, whose session was created after the first had saved its user message,
\* has its final response
C25_Witness ==
    \E a, b \in DOMAIN req :
        /\ a < b
        /\ Waiting(a)
        /\ Succeeded(b)
        /\ req[b].session # req[a].session
        /\ req[b].created > req[a].saved[1]

\* C26: a unit of work that waits for the generator ends in any case: if the
\* generator never returns, the REST request gets an internal error and the
\* chat_query an error envelope after a bounded wait.
C26_WaitEnds ==
    \A r \in 1..MaxRequests :
        (r \in DOMAIN req /\ Waiting(r)) ~> (r \in DOMAIN req /\ ~Waiting(r))

\* unit r has been accepted and has not ended
InFlight(r) == req[r].pc # "done"

\* C29: a connection has a single consumer: at most one chat_query of a
\* connection is in flight at a time, and the envelopes of two queries are
\* never interleaved on a connection.
C29_OneQueryPerConnection ==
    /\ \A a, b \in DOMAIN req :
          /\ a # b
          /\ req[a].kind = "ws" /\ req[b].kind = "ws"
          /\ req[a].conn = req[b].conn
          => ~(InFlight(a) /\ InFlight(b))
    /\ \A c \in DOMAIN sent :
          \A i, j, k \in DOMAIN sent[c] :
              i < j /\ j < k /\ sent[c][i].req = sent[c][k].req
              => sent[c][j].req = sent[c][i].req

\* C30: a closed connection stays closed, and the server never calls ws.send
\* for it again, whatever the envelope, also when the unit of work fails
\* after the close.
C30_NoSendAfterClose ==
    /\ [](\A r \in DOMAIN req : req[r].closedSends = 0)
    /\ [][\A c \in DOMAIN readyState :
            readyState[c] = "CLOSED" => readyState'[c] = "CLOSED"]_vars

----------------------------------------------------------------------------
(* The token loop and the close of its connection *)

\* C31: once the connection of a chat_query has closed, the iteration over
\* the fragments of its response is abandoned: no further fragment is taken
\* from the generator.
C31_IterationAbandonedOnClose ==
    [][\A r \in DOMAIN req :
          req[r].kind = "ws" /\ readyState[req[r].conn] # "OPEN"
          => req'[r].idx = req[r].idx]_vars

----------------------------------------------------------------------------
(* POST /api/v1/copilot/chat, from the request to the response *)

\* the place of message id in the Map's insertion order
PositionOf(id) == CHOOSE i \in 1..Len(chatMessages) : chatMessages[i].id = id

\* C32: a request answered with 200 was authenticated and validated, has its
\* session resolved or created, saved the user message, called the generator
\* with that message already in the history, and saved the assistant message:
\* exactly two messages, user before assistant, both in the session of the
\* response, whose messageId is the assistant message's id; without a
\* sessionId in the request the session is one the request created for the
\* principal.
C32_SingleShotSteps ==
    \A r \in DOMAIN req :
        req[r].kind = "rest" /\ req[r].status = 200 =>
            /\ verifyToken(req[r].token) # NoPrincipal
            /\ ValidQuery(req[r].query)
            /\ req[r].llmCalls = 1
            /\ Len(req[r].saved) = 2
            /\ LET inbound == MessageById(req[r].saved[1])
                   outbound == MessageById(req[r].saved[2])
               IN  /\ inbound.role = "user"
                   /\ inbound.content = req[r].query
                   /\ outbound.role = "assistant"
                   /\ outbound.content = req[r].text
                   /\ inbound.sessionId = req[r].session
                   /\ outbound.sessionId = req[r].session
                   /\ PositionOf(inbound.id) < PositionOf(outbound.id)
                   /\ inbound.timestamp <= outbound.timestamp
            /\ req[r].messageId = req[r].saved[2]
            /\ \E i \in DOMAIN req[r].history :
                  req[r].history[i] = [role |-> "user", content |-> req[r].query]
            /\ req[r].session \in DOMAIN chatSessions
            /\ chatSessions[req[r].session].userId = verifyToken(req[r].token).sub
            /\ IF req[r].sessionId = NoSessionId
               THEN /\ req[r].created # NoSessionId
                    /\ req[r].session = req[r].created
                    /\ req[r].created < req[r].saved[1]
               ELSE /\ req[r].created = NoSessionId
                    /\ req[r].session = req[r].sessionId

\* a request without a sessionId was answered with 200
C32_Witness ==
    \E r \in DOMAIN req :
        /\ req[r].kind = "rest"
        /\ req[r].status = 200
        /\ req[r].sessionId = NoSessionId
        /\ Len(req[r].saved) = 2

----------------------------------------------------------------------------
(* The intent of a response *)

\* C33: on both ingress paths the intent stored on the assistant message a
\* unit of work saved, and the intent of the REST response, is the label
\* detectIntent computed for the unit's query.
C33_StoredIntentIsDetected ==
    \A r \in DOMAIN req :
        /\ \A i \in DOMAIN req[r].saved :
              MessageById(req[r].saved[i]).role = "assistant"
              => MessageById(req[r].saved[i]).intent = req[r].intent
        /\ req[r].kind = "rest" /\ req[r].status = 200
              => req[r].llmIntent = req[r].intent

----------------------------------------------------------------------------
(* Sessions and their messages behind the gateway *)

\* C34: whatever the gateway is asked, in whatever order its units of work
\* run, every stored message names a session that is in the store, and a
\* session keeps the owner and the creation time it was created with.
C34_MessagesHaveSessions ==
    /\ [](\A i \in DOMAIN chatMessages :
            chatMessages[i].sessionId \in DOMAIN chatSessions)
    /\ [][\A id \in DOMAIN chatSessions :
            /\ id \in DOMAIN chatSessions'
            /\ chatSessions'[id].userId = chatSessions[id].userId
            /\ chatSessions'[id].createdAt = chatSessions[id].createdAt]_vars

\* a chat_query that named a session the store does not have has saved its
\* user message, next to a REST unit's message
C34_Witness ==
    /\ \E r \in DOMAIN req :
          /\ req[r].kind = "ws"
          /\ req[r].sessionId = UnknownSessionId
          /\ req[r].saved # <<>>
    /\ \E r \in DOMAIN req : req[r].kind = "rest" /\ req[r].saved # <<>>

----------------------------------------------------------------------------
(* The messages of a chat_query *)

\* callMcpLlm resolved for the chat_query r
Generated(r) ==
    /\ req[r].kind = "ws"
    /\ req[r].llmCalls > 0
    /\ ~req[r].failed
    /\ req[r].pc \in {"w_streaming", "w_assistant", "done"}

AssistantMessagesOf(r) ==
    {i \in DOMAIN req[r].saved : MessageById(req[r].saved[i]).role = "assistant"}

\* C35: a chat_query whose generation succeeds saves exactly one assistant
\* message, after the last fragment was taken and not before, with the
\* connection open or not; every message a unit saves adds one to its
\* session's messageCount, two for such a query.
C35_OneAssistantMessage ==
    /\ [](\A r \in DOMAIN req :
            Generated(r) =>
                IF req[r].pc = "w_streaming"
                THEN Len(req[r].saved) = 1 /\ AssistantMessagesOf(r) = {}
                ELSE /\ Len(req[r].saved) = 2
                     /\ AssistantMessagesOf(r) = {2}
                     /\ MessageById(req[r].saved[2]).content = req[r].text
                     /\ MessageById(req[r].saved[2]).sessionId = req[r].session
                     /\ req[r].idx = Len(streamResponse(req[r].text)))
    /\ [][\A r \in DOMAIN req :
            req[r].kind = "ws" /\ req'[r].saved # req[r].saved =>
                /\ Len(req'[r].saved) = Len(req[r].saved) + 1
                /\ chatSessions'[req'[r].session].messageCount
                      = chatSessions[req'[r].session].messageCount + 1]_vars

\* a chat_query whose connection closed before the stream ended has saved
\* its assistant message and was never given a complete envelope
C35_Witness ==
    \E r \in DOMAIN req :
        /\ Generated(r)
        /\ req[r].pc = "done"
        /\ readyState[req[r].conn] = "CLOSED"
        /\ AssistantMessagesOf(r) = {2}
        /\ \A i \in DOMAIN EnvelopesOf(r) : EnvelopesOf(r)[i].type # "complete"

----------------------------------------------------------------------------
(* The widget's sockets *)

\* the sockets of the widget that are connecting or open
LiveSockets ==
    {s \in DOMAIN widget.sockets :
        widget.sockets[s].readyState \in {"CONNECTING", "OPEN"}}

\* C36: a widget has at most one WebSocket that is connecting or open, and
\* wsRef.current is that socket, whatever the order of opening and closing
\* the widget, close events and reconnection timers.
C36_OneLiveSocket ==
    /\ Cardinality(LiveSockets) <= 1
    /\ \A s \in LiveSockets : widget.wsRef = s

\* C37: while the widget is closed the client has no connecting or open
\* socket and creates none: the render that closes the widget closes the
\* socket, and a reconnection timer that fires while the widget is closed
\* connects nothing.
C37_NoSocketWhileClosed ==
    /\ [](~widget.isOpen => LiveSockets = {})
    /\ [][~widget'.isOpen => Len(widget'.sockets) = Len(widget.sockets)]_vars

----------------------------------------------------------------------------
(* the typing flag, the session and the transmissions of the widget *)

\* an envelope that clears the typing flag can still arrive: an open socket
\* has a query the server has not finished, or a connecting socket has a
\* query waiting for its open event
Answerable ==
    \E s \in DOMAIN widget.sockets :
        \/ /\ widget.sockets[s].readyState = "OPEN"
           /\ \E i \in DOMAIN widget.sockets[s].transmitted :
                  widget.sockets[s].transmitted[i].phase \in {"sent", "typing"}
        \/ /\ widget.sockets[s].readyState = "CONNECTING"
           /\ widget.sockets[s].listeners # <<>>

\* C38: when a connection closed between a typing envelope and its complete
\* or error, the typing flag is cleared: once the widget holds an open
\* connection again and no answer is outstanding on any socket, isTyping is
\* false and handleSend accepts a submission.
C38_TypingClearedAfterClose ==
    (/\ widget.wsRef # NoSocket
     /\ widget.sockets[widget.wsRef].readyState = "OPEN"
     /\ ~Answerable)
    => ~widget.isTyping

\* C39: the server creates at most one session for the queries of one widget
\* instance, whatever the order of submissions and envelopes.
C39_OneSessionPerWidget ==
    widget.serverSessions <= 1

\* the calls of socket.send that carried query n
Transmissions(n) ==
    {p \in {<<s, i>> : s \in DOMAIN widget.sockets, i \in 1..MaxSubmits} :
        /\ p[2] \in DOMAIN widget.sockets[p[1]].transmitted
        /\ widget.sockets[p[1]].transmitted[p[2]].query = n}

\* the open listeners that hold query n
Queued(n) ==
    {p \in {<<s, i>> : s \in DOMAIN widget.sockets, i \in 1..MaxSubmits} :
        /\ p[2] \in DOMAIN widget.sockets[p[1]].listeners
        /\ widget.sockets[p[1]].listeners[p[2]].query = n}

\* C40: a query given to sendMessage on a connecting socket is not sent
\* while the socket connects, is sent by the step in which the socket opens,
\* and is sent once; a query given on an open socket is sent once by the
\* call itself; a query given on a closing or closed socket, or with no
\* socket, is never sent.  No query is sent on another socket than its own,
\* and a sent query is not sent again.
C40_TransmittedOnce ==
    /\ [](\A n \in DOMAIN widget.submitted :
            LET h == widget.submitted[n]
                T == Transmissions(n)
            IN  /\ Cardinality(T) <= 1
                /\ \A p \in T : p[1] = h.socket
                /\ h.readyState = "OPEN" => Cardinality(T) = 1 /\ Queued(n) = {}
                /\ h.readyState \in {"CLOSING", "CLOSED", "NONE"}
                       => T = {} /\ Queued(n) = {}
                /\ h.readyState = "CONNECTING"
                       => /\ widget.sockets[h.socket].readyState = "CONNECTING"
                             => T = {} /\ Cardinality(Queued(n)) = 1
                          /\ widget.sockets[h.socket].readyState = "OPEN"
                             => Cardinality(T) = 1 /\ Queued(n) = {})
    /\ [][\A n \in DOMAIN widget.submitted :
            Transmissions(n)' # Transmissions(n)
            => /\ Transmissions(n) = {}
               /\ widget.submitted[n].readyState = "CONNECTING"
               /\ widget.sockets[widget.submitted[n].socket].readyState
                      = "CONNECTING"
               /\ widget'.sockets[widget.submitted[n].socket].readyState
                      = "OPEN"]_vars

\* two queries were given to sendMessage: the first while its socket was
\* connecting, and the socket has opened and sent it; the second on a socket
\* that was closing or closed
C40_Witness ==
    /\ Len(widget.submitted) = 2
    /\ widget.submitted[1].readyState = "CONNECTING"
    /\ widget.sockets[widget.submitted[1].socket].readyState = "OPEN"
    /\ Cardinality(Transmissions(1)) = 1
    /\ widget.submitted[2].readyState \in {"CLOSING", "CLOSED"}
    /\ Transmissions(2) = {}

====
